---- MODULE Spec2Model ----
(***************************************************************************)
(* Order-book reconciliation pipeline of crawl-xpl-motia.                  *)
(*                                                                         *)
(*   - the persistence gateway (utils/database, kept in                    *)
(*     src/steps/fetch-xpl.step.ts 243-394): order_books table,            *)
(*     createOrderBooksTable, insertOrderBook, updateOrderStatus,          *)
(*     getAllOrderBooks;                                                   *)
(*   - the caching / deduplicating page fetcher and the ProcessXplData     *)
(*     handler with the 15 s collection deadline (src/unnamed/part_003).   *)
(*                                                                         *)
(* Time is the wall clock in milliseconds (Date.now(), CURRENT_TIMESTAMP). *)
(* JavaScript runs one synchronous block at a time: every action below is  *)
(* one such block, from the completion of an awaited operation to the next *)
(* await.                                                                  *)
(***************************************************************************)
EXTENDS Integers, Sequences, FiniteSets, TLC

(***************************************************************************)
(* Bounds of the model.                                                    *)
(***************************************************************************)
\* number of overlapping invocations of the ProcessXplData handler
NumRuns == 2
\* the clock advances MaxTicks times, by TickMs each time
MaxTicks == 2
\* largest totalPage an upstream envelope announces
MaxPages == 2

(***************************************************************************)
(* Program constants.                                                      *)
(***************************************************************************)
CACHE_TTL == 3000

\* step of the clock: half the lifetime of a cache entry
TickMs == CACHE_TTL \div 2

Runs == 1..NumRuns
Sides == <<"buy", "sell">>
SideNames == {"buy", "sell"}

\* JavaScript undefined for a string-valued field
Undefined == "<undefined>"
\* value of firstResult.totalPage when the envelope has no totalPage field
NoTotalPage == -1

(***************************************************************************)
(* JavaScript helpers.                                                     *)
(***************************************************************************)
Truthy(s) == s \notin {Undefined, ""}

\* a || b on strings
JsOr(a, b) == IF Truthy(a) THEN a ELSE b

Digits == <<"0", "1", "2", "3", "4", "5", "6", "7", "8", "9">>

IsDigit(c) == \E i \in 1..10 : Digits[i] = c

DigitVal(c) == (CHOOSE i \in 1..10 : Digits[i] = c) - 1

RECURSIVE DigitPrefixLen(_)
DigitPrefixLen(s) ==
  IF s = <<>> \/ ~IsDigit(Head(s)) THEN 0 ELSE 1 + DigitPrefixLen(Tail(s))

RECURSIVE DigitsToInt(_, _)
DigitsToInt(s, n) ==
  IF n = 0 THEN 0 ELSE DigitsToInt(s, n - 1) * 10 + DigitVal(s[n])

\* parseFloat on a text given as a sequence of characters (undefined, null
\* and "" are the empty text): optional sign, then the longest digit prefix;
\* NaN when there is none.  The texts of the model carry no "." or exponent.
ParseFloat(s) ==
  LET neg == s # <<>> /\ Head(s) = "-"
      body == IF neg THEN Tail(s) ELSE s
      n == DigitPrefixLen(body)
  IN  IF n = 0 THEN [nan |-> TRUE, val |-> 0]
      ELSE [nan |-> FALSE,
            val |-> IF neg THEN 0 - DigitsToInt(body, n) ELSE DigitsToInt(body, n)]

\* parseFloat(x) || 0
ParseOrZero(s) ==
  LET p == ParseFloat(s) IN IF p.nan \/ p.val = 0 THEN 0 ELSE p.val

(***************************************************************************)
(* Upstream records and envelopes the model draws from.                    *)
(***************************************************************************)
RawOrder(id, side, short, user, price, size, funds) ==
  [id |-> id, side |-> side, userShortName |-> short, username |-> user,
   price |-> price, size |-> size, funds |-> funds]

RawA == RawOrder("A", "buy", "ann", Undefined, <<"5">>, <<"2">>, <<"1", "0">>)
\* the same id offered on the other side, with unparsable numbers
RawA2 == RawOrder("A", "sell", "", Undefined, <<"x">>, <<>>, <<"3", "z">>)
RawB == RawOrder("B", "sell", Undefined, "bob", <<"7">>, <<"1">>, <<"7">>)

RawOrders == {RawA, RawA2, RawB}
Uids == {o.id : o \in RawOrders}

Envelope(total, has, list) ==
  [totalPage |-> total, has |-> has,
   data |-> IF "data" \in has THEN list ELSE <<>>,
   items |-> IF "items" \in has /\ "data" \notin has THEN list ELSE <<>>,
   orders |-> <<>>]

\* 2xx bodies the upstream may answer with
BuyEnvelopes ==
  { Envelope(1, {"data"}, <<RawA>>),
    Envelope(MaxPages, {"data"}, <<RawA>>),
    Envelope(NoTotalPage, {"data"}, <<RawA>>) }

SellEnvelopes ==
  { Envelope(1, {"data"}, <<RawB>>),
    Envelope(1, {"items"}, <<RawA2>>),
    Envelope(1, {}, <<>>) }

\* page 1 draws from all of them, a later page from those that announce it
Envelopes(side, page) ==
  {e \in IF side = "buy" THEN BuyEnvelopes ELSE SellEnvelopes :
     page = 1 \/ e.totalPage >= page}

\* part_003 329-335: the body returned for HTTP 429
RateLimitedResult ==
  [totalPage |-> 0, has |-> {"data", "items", "orders"},
   data |-> <<>>, items |-> <<>>, orders |-> <<>>]

NoResult == [totalPage |-> NoTotalPage, has |-> {}, data |-> <<>>,
             items |-> <<>>, orders |-> <<>>]

\* result.data || result.items || result.orders || []  (an array is truthy)
OrdersOf(result) ==
  IF "data" \in result.has THEN result.data
  ELSE IF "items" \in result.has THEN result.items
  ELSE IF "orders" \in result.has THEN result.orders
  ELSE <<>>

\* orders.map(order => ({...order, status: "open"}))
RECURSIVE WithStatusOpen(_)
WithStatusOpen(list) ==
  IF list = <<>> THEN <<>>
  ELSE <<[id |-> Head(list).id, side |-> Head(list).side,
          userShortName |-> Head(list).userShortName,
          username |-> Head(list).username, price |-> Head(list).price,
          size |-> Head(list).size, funds |-> Head(list).funds,
          status |-> "open"]>> \o WithStatusOpen(Tail(list))

IdsOf(list) == {list[i].id : i \in DOMAIN list}

(***************************************************************************)
(* Persistence gateway: the order_books table.                             *)
(***************************************************************************)
VARIABLES
  now,            \* wall clock, ms
  tableExists,    \* order_books has been created
  order_books,    \* the rows, in insertion order
  dbLog           \* the last gateway call and its outcome (observation only)

\* Page fetcher of part_003: module-level maps shared by all invocations
VARIABLES
  requestCache,     \* requestKey -> {result, timestamp}
  pendingRequests,  \* requestKey -> the request promise stored under it
  inflight,         \* request promise -> the key of its upstream request
  awaiting,         \* collector -> the request promise it awaits
  inbox,            \* collector -> the settled value handed to it
  reqLog            \* requestKey -> its last upstream request (observation only)

\* processingPromise of each invocation
VARIABLES
  cpc,              \* "idle", "await", "resume" or "finished"
  sideIx,           \* position in sides
  phase,            \* "first": the first-page request; "loop": the page loop
  currentPage, totalPages, ordersWithStatus,
  allOrders,        \* {buyOrders, sellOrders}
  sideStatus        \* how each side ended (observation only)

\* handler / processXplData of each invocation
VARIABLES
  pc,               \* "off", "idle", "schema", "race", "read", "close", "save", "done"
  input, timedOut, result,
  existingOrders, newOrderIds, closeIx, closedCount,
  allOrdersToSave, saveIx, savedCount,
  runLog            \* what the invocation did to the store (observation only)

\* Retry variant (src/steps/process-xpl-data.step.ts): fetchPage with retries
\* and the side loop of its processXplData
VARIABLES
  attempt,          \* loop variable of fetchPage; 0: no call in progress
  delay,            \* ms to wait before the next attempt
  rvPc,             \* "off", "idle", "fetch", "backoff", "read", "failed"
  rvSideIx,         \* position in sides
  rvPhase,          \* "first": the first-page call; "loop": the page loop
  rvCurrentPage, rvTotalPages,
  rvResult,         \* the page held while the run waits between two pages
  rvAllOrders,      \* {buyOrders, sellOrders}
  rvSideStatus,     \* how each side ended (observation only)
  rvCallLog         \* attempts and waits of the last fetchPage call (observation only)

\* FetchXplCron and the xpl.fetch.requested topic
VARIABLES
  cronHandler,      \* the handler deployed: "logOnly" (steps/xpl/fetch-xpl-cron.step.ts)
                    \* "emit" (part_002) or "http" (part_004)
  cronPc,           \* "idle", "emit" (await emit) or "http" (await fetch)
  topic,            \* events emitted and not yet delivered
  cronLog           \* executions, events emitted and delivered, errors logged and
                    \* thrown again (observation only)

\* XplDataApi, the handler of GET /fetch-xpl (steps/fetch-xpl.step.ts)
VARIABLES
  apiPc,            \* "off", "idle", "schema", "fetch", "read", "close", "save", "done"
  apiSideIx,        \* index in Sides of the side being fetched
  apiPhase,         \* "first" (the request for totalPage) or "loop"
  apiCurrentPage,
  apiTotalPages,
  apiAllOrders,
  apiExistingOrders,
  apiIx,            \* position in the close loop or in the save loop
  apiToSave,
  apiSavedCount,
  apiResponse,
  apiLog            \* a page fetch failed, rows at the request, uids written
                    \* (observation only)

storeVars == <<tableExists, order_books, dbLog>>
fetchVars == <<requestCache, pendingRequests, inflight, awaiting, inbox, reqLog>>
collVars == <<cpc, sideIx, phase, currentPage, totalPages, ordersWithStatus,
              allOrders, sideStatus>>
reconVars == <<existingOrders, newOrderIds, closeIx, closedCount,
               allOrdersToSave, saveIx, savedCount, runLog>>
runVars == <<pc, input, timedOut, result>>
pipelineVars == <<fetchVars, collVars, reconVars, runVars>>
retryVars == <<attempt, delay, rvPc, rvSideIx, rvPhase, rvCurrentPage,
               rvTotalPages, rvResult, rvAllOrders, rvSideStatus, rvCallLog>>
cronVars == <<cronHandler, cronPc, topic, cronLog>>
apiVars == <<apiPc, apiSideIx, apiPhase, apiCurrentPage, apiTotalPages,
             apiAllOrders, apiExistingOrders, apiIx, apiToSave, apiSavedCount,
             apiResponse, apiLog>>
vars == <<now, storeVars, pipelineVars, retryVars, cronVars, apiVars>>

Row(order, created, updated) ==
  [uid |-> order.uid, side |-> order.side, username |-> order.username,
   price |-> order.price, quantity |-> order.quantity, funds |-> order.funds,
   status |-> order.status, created_at |-> created, updated_at |-> updated]

HasUid(tbl, uid) == \E i \in DOMAIN tbl : tbl[i].uid = uid

RowOf(tbl, uid) == tbl[CHOOSE i \in DOMAIN tbl : tbl[i].uid = uid]

UidsIn(tbl) == {tbl[i].uid : i \in DOMAIN tbl}

\* NOT NULL columns: pg sends undefined as NULL
ViolatesNotNull(order) == order.uid = Undefined \/ order.side = Undefined

\* a plain INSERT into a table whose uid column is not UNIQUE
InsertNoConflict(tbl, order, ts) == Append(tbl, Row(order, ts, ts))

\* INSERT OR REPLACE: the conflicting row is deleted and inserted anew
InsertReplace(tbl, order, ts) ==
  Append(SelectSeq(tbl, LAMBDA r : r.uid # order.uid), Row(order, ts, ts))

\* an ON CONFLICT clause that leaves out status = EXCLUDED.status
InsertKeepsStatus(tbl, order, ts) ==
  IF HasUid(tbl, order.uid)
  THEN [i \in DOMAIN tbl |->
          IF tbl[i].uid = order.uid
          THEN Row([order EXCEPT !.status = tbl[i].status], tbl[i].created_at, ts)
          ELSE tbl[i]]
  ELSE Append(tbl, Row(order, ts, ts))

\* ON CONFLICT (uid) DO NOTHING: the first write of a uid wins
InsertDoNothing(tbl, order, ts) ==
  IF HasUid(tbl, order.uid) THEN tbl ELSE Append(tbl, Row(order, ts, ts))

\* INSERT ... ON CONFLICT (uid) DO UPDATE SET side, username, price, quantity,
\* funds, status = EXCLUDED.*, updated_at = CURRENT_TIMESTAMP
insertOrderBook(tbl, order, ts) ==
  IF HasUid(tbl, order.uid)
  THEN [i \in DOMAIN tbl |->
          IF tbl[i].uid = order.uid
          THEN Row(order, tbl[i].created_at, ts)
          ELSE tbl[i]]
  ELSE Append(tbl, Row(order, ts, ts))

\* a status update that drops the rows it closes
UpdateDeletesClosed(tbl, uid, status, ts) ==
  IF status = "close" THEN SelectSeq(tbl, LAMBDA r : r.uid # uid)
  ELSE [i \in DOMAIN tbl |->
          IF tbl[i].uid = uid
          THEN [tbl[i] EXCEPT !.status = status, !.updated_at = ts]
          ELSE tbl[i]]

\* UPDATE order_books SET status = $1, updated_at = CURRENT_TIMESTAMP
\* WHERE uid = $2
updateOrderStatus(tbl, uid, status, ts) ==
  [i \in DOMAIN tbl |->
     IF tbl[i].uid = uid
     THEN [tbl[i] EXCEPT !.status = status, !.updated_at = ts]
     ELSE tbl[i]]

\* ORDER BY created_at ASC, as a stable insertion sort
RECURSIVE InsertSorted(_, _)
InsertSorted(sorted, r) ==
  IF sorted = <<>> THEN <<r>>
  ELSE IF r.created_at < Head(sorted).created_at THEN <<r>> \o sorted
  ELSE <<Head(sorted)>> \o InsertSorted(Tail(sorted), r)

RECURSIVE SortByCreatedAt(_)
SortByCreatedAt(tbl) ==
  IF tbl = <<>> THEN <<>>
  ELSE InsertSorted(SortByCreatedAt(SubSeq(tbl, 1, Len(tbl) - 1)), tbl[Len(tbl)])

\* SELECT ... FROM order_books ORDER BY created_at ASC
getAllOrderBooks(tbl) == SortByCreatedAt(tbl)

\* the argument the handlers build for insertOrderBook out of a fetched order
OrderArg(order) ==
  [uid |-> order.id, side |-> order.side,
   username |-> JsOr(JsOr(order.userShortName, order.username), "Unknown"),
   price |-> ParseOrZero(order.price),
   quantity |-> ParseOrZero(order.size),
   funds |-> ParseOrZero(order.funds),
   status |-> "open"]

NoArg ==
  [uid |-> Undefined, side |-> Undefined, username |-> Undefined, price |-> 0,
   quantity |-> 0, funds |-> 0, status |-> Undefined]

StatusArg(uid, status) == [NoArg EXCEPT !.uid = uid, !.status = status]

NoCall == [op |-> "none", arg |-> NoArg, ok |-> TRUE]

DbCall(op, arg, ok) == [op |-> op, arg |-> arg, ok |-> ok]

\* arguments the direct driver passes to insertOrderBook
StoreOrders ==
  {[OrderArg(o) EXCEPT !.status = s] : o \in RawOrders, s \in {"open", "close"}}

\* DROP TABLE followed by CREATE TABLE: the rows are lost
CreateTableFresh(exists, tbl) == <<>>

\* CREATE TABLE IF NOT EXISTS order_books (... uid ... UNIQUE ...)
createOrderBooksTable(exists, tbl) == IF exists THEN tbl ELSE <<>>

\* a query succeeds when the connection works (ok) and the statement is valid
QueryOk(ok) == ok /\ tableExists

(***************************************************************************)
(* Page fetcher with cache and in-flight deduplication (part_003 294-361). *)
(***************************************************************************)
\* `${url}-${JSON.stringify(payload)}`: url and the other payload fields are
\* the same in every call
requestKey(side, page) == [side |-> side, page |-> page]

Keys == {requestKey(s, p) : s \in SideNames, p \in 1..MaxPages}

NoKey == [side |-> "none", page |-> 0]

NoEntry == [present |-> FALSE, result |-> NoResult, timestamp |-> 0]

NoReq == [issued |-> FALSE, at |-> 0, outcome |-> "none"]

Settled(threw, res) == [threw |-> threw, result |-> res]

NoSettled == Settled(FALSE, NoResult)

\* the await of a settled promise resumes before any timer or I/O callback
NoMicrotask == \A c \in Runs : cpc[c] # "resume"

\* a cache check with the comparison turned round
CacheHitInverted(entry, t) == entry.present /\ t - entry.timestamp > CACHE_TTL

\* cached && Date.now() - cached.timestamp < CACHE_TTL
CacheHit(entry, t) == entry.present /\ t - entry.timestamp < CACHE_TTL

\* a fetcher without the pendingRequests lookup
NoPendingLookup(pending, key) == 0

\* pendingRequests.get(requestKey)
PendingLookup(pending, key) == pending[key]

\* a fetcher that also caches the result it returns for HTTP 429
CachesRateLimited(outcome) == outcome \in {"ok", "429"}

\* requestCache.set is reached only past the 429 and !response.ok branches
CachesResult(outcome) == outcome = "ok"

\* a fetcher that throws on 429 as on any other non-2xx status
ThrowsOn429(outcome, body) ==
  IF outcome = "ok" THEN Settled(FALSE, body) ELSE Settled(TRUE, NoResult)

\* a request promise without the finally block
KeepPending(pending, key) == pending

\* finally { pendingRequests.delete(requestKey) }
DeletePending(pending, key) == [pending EXCEPT ![key] = 0]

\* the value the request promise settles with
SettledValue(outcome, body) ==
  IF outcome = "429" THEN Settled(FALSE, RateLimitedResult)
  ELSE IF outcome = "ok" THEN Settled(FALSE, body)
  ELSE Settled(TRUE, NoResult)

\* the synchronous part of fetchPage, called by collector r
fetchPage(r, key) ==
  LET cached == requestCache[key]
      pendingRequest == PendingLookup(pendingRequests, key)
  IN  IF CacheHit(cached, now)
      THEN /\ inbox' = [inbox EXCEPT ![r] = Settled(FALSE, cached.result)]
           /\ cpc' = [cpc EXCEPT ![r] = "resume"]
           /\ UNCHANGED <<requestCache, pendingRequests, inflight, awaiting, reqLog>>
      ELSE IF pendingRequest # 0
      THEN /\ awaiting' = [awaiting EXCEPT ![r] = pendingRequest]
           /\ cpc' = [cpc EXCEPT ![r] = "await"]
           /\ UNCHANGED <<requestCache, pendingRequests, inflight, inbox, reqLog>>
      ELSE /\ inflight' = [inflight EXCEPT ![r] = key]
           /\ pendingRequests' = [pendingRequests EXCEPT ![key] = r]
           /\ awaiting' = [awaiting EXCEPT ![r] = r]
           /\ reqLog' = [reqLog EXCEPT ![key] =
                           [issued |-> TRUE, at |-> now, outcome |-> "pending"]]
           /\ cpc' = [cpc EXCEPT ![r] = "await"]
           /\ UNCHANGED <<requestCache, inbox>>

\* the upstream answers the request of promise p: the rest of requestPromise
HttpComplete(p, outcome, body) ==
  LET key == inflight[p]
      value == SettledValue(outcome, body)
  IN  /\ NoMicrotask
      /\ key # NoKey
      /\ requestCache' =
           IF CachesResult(outcome)
           THEN [requestCache EXCEPT ![key] =
                   [present |-> TRUE, result |-> value.result, timestamp |-> now]]
           ELSE requestCache
      /\ pendingRequests' = DeletePending(pendingRequests, key)
      /\ inflight' = [inflight EXCEPT ![p] = NoKey]
      /\ awaiting' = [c \in Runs |-> IF awaiting[c] = p THEN 0 ELSE awaiting[c]]
      /\ inbox' = [c \in Runs |-> IF awaiting[c] = p THEN value ELSE inbox[c]]
      /\ cpc' = [c \in Runs |-> IF awaiting[c] = p THEN "resume" ELSE cpc[c]]
      /\ reqLog' = [reqLog EXCEPT ![key].outcome = outcome]
      /\ UNCHANGED <<now, storeVars, reconVars, runVars>>
      /\ UNCHANGED <<sideIx, phase, currentPage, totalPages, ordersWithStatus,
                     allOrders, sideStatus>>
      /\ UNCHANGED <<retryVars, cronVars, apiVars>>

(***************************************************************************)
(* processingPromise: the side collector (part_003 93-182).                *)
(***************************************************************************)
NoOrders == [buyOrders |-> <<>>, sellOrders |-> <<>>]

\* the key of the fetchPage call collector c is in
CurrentKey(c) ==
  requestKey(Sides[sideIx[c]], IF phase[c] = "first" THEN 1 ELSE currentPage[c])

\* a first-page check that only knows the rate-limit result
NoPagesOnlyZero(res) == res.totalPage = 0

\* !firstResult.totalPage
NoPages(res) == res.totalPage = NoTotalPage \/ res.totalPage = 0

\* a collector without the per-side try/catch: a side that fails or is
\* rate-limited ends the whole collection
SideDoneAborts(r, status, all) ==
  /\ allOrders' = [allOrders EXCEPT ![r] = all]
  /\ sideStatus' = [sideStatus EXCEPT ![r][Sides[sideIx[r]]] = status]
  /\ currentPage' = [currentPage EXCEPT ![r] = 0]
  /\ totalPages' = [totalPages EXCEPT ![r] = 0]
  /\ ordersWithStatus' = [ordersWithStatus EXCEPT ![r] = <<>>]
  /\ phase' = [phase EXCEPT ![r] = "first"]
  /\ IF sideIx[r] < Len(Sides) /\ status \notin {"failed", "rateLimited"}
     THEN /\ sideIx' = [sideIx EXCEPT ![r] = sideIx[r] + 1]
          /\ fetchPage(r, requestKey(Sides[sideIx[r] + 1], 1))
          /\ UNCHANGED pc
     ELSE /\ cpc' = [cpc EXCEPT ![r] = "finished"]
          /\ pc' = [pc EXCEPT ![r] = IF pc[r] = "race" THEN "read" ELSE pc[r]]
          /\ UNCHANGED <<sideIx, fetchVars>>

\* the side ends (assignment, continue or catch); the next side starts, or
\* processingPromise resolves and wins the race when it is still on
SideDone(r, status, all) ==
  /\ allOrders' = [allOrders EXCEPT ![r] = all]
  /\ sideStatus' = [sideStatus EXCEPT ![r][Sides[sideIx[r]]] = status]
  /\ currentPage' = [currentPage EXCEPT ![r] = 0]
  /\ totalPages' = [totalPages EXCEPT ![r] = 0]
  /\ ordersWithStatus' = [ordersWithStatus EXCEPT ![r] = <<>>]
  /\ phase' = [phase EXCEPT ![r] = "first"]
  /\ IF sideIx[r] < Len(Sides)
     THEN /\ sideIx' = [sideIx EXCEPT ![r] = sideIx[r] + 1]
          /\ fetchPage(r, requestKey(Sides[sideIx[r] + 1], 1))
          /\ UNCHANGED pc
     ELSE /\ cpc' = [cpc EXCEPT ![r] = "finished"]
          /\ pc' = [pc EXCEPT ![r] = IF pc[r] = "race" THEN "read" ELSE pc[r]]
          /\ UNCHANGED <<sideIx, fetchVars>>

\* a collector that publishes only the last record it collected
AssignsLastOnly(all, side, list) ==
  LET last == IF list = <<>> THEN <<>> ELSE <<list[Len(list)]>> IN
  IF side = "buy" THEN [all EXCEPT !.buyOrders = last]
  ELSE [all EXCEPT !.sellOrders = last]

\* allOrders.buyOrders = ordersWithStatus / allOrders.sellOrders = ...
AssignSide(all, side, list) ==
  IF side = "buy" THEN [all EXCEPT !.buyOrders = list]
  ELSE [all EXCEPT !.sellOrders = list]

\* a page loop that steps over every other page
SkipsPage(page) == page + 2

\* currentPage++
NextPage(page) == page + 1

\* collector r continues with the value its await produced
Resume(r) ==
  LET v == inbox[r]
      side == Sides[sideIx[r]]
      acc == ordersWithStatus[r] \o WithStatusOpen(OrdersOf(v.result))
      seen429 == sideStatus[r][side] = "partial" \/ v.result = RateLimitedResult
  IN  /\ cpc[r] = "resume"
      /\ UNCHANGED <<now, storeVars, reconVars, input, timedOut, result>>
      /\ IF v.threw
         THEN SideDone(r, "failed", allOrders[r])
         ELSE IF phase[r] = "first"
         THEN IF NoPages(v.result)
              THEN IF v.result.totalPage = 0
                   THEN SideDone(r, "rateLimited", allOrders[r])
                   ELSE SideDone(r, "failed", allOrders[r])
              ELSE /\ totalPages' = [totalPages EXCEPT ![r] = v.result.totalPage]
                   /\ currentPage' = [currentPage EXCEPT ![r] = 1]
                   /\ phase' = [phase EXCEPT ![r] = "loop"]
                   /\ fetchPage(r, requestKey(side, 1))
                   /\ UNCHANGED <<sideIx, ordersWithStatus, allOrders, sideStatus, pc>>
         ELSE IF NextPage(currentPage[r]) <= totalPages[r]
              THEN /\ ordersWithStatus' = [ordersWithStatus EXCEPT ![r] = acc]
                   /\ currentPage' = [currentPage EXCEPT ![r] = NextPage(currentPage[r])]
                   /\ sideStatus' = [sideStatus EXCEPT ![r][side] =
                                       IF seen429 THEN "partial" ELSE "pending"]
                   /\ fetchPage(r, requestKey(side, NextPage(currentPage[r])))
                   /\ UNCHANGED <<sideIx, phase, totalPages, allOrders, pc>>
              ELSE SideDone(r, IF seen429 THEN "degraded" ELSE "complete",
                            AssignSide(allOrders[r], side, acc))
      /\ UNCHANGED <<retryVars, cronVars, apiVars>>

(***************************************************************************)
(* handler / processXplData (part_003 24-292).                             *)
(***************************************************************************)
NoInput == [source |-> Undefined]

NotReturned == [kind |-> "none"]

\* the exception leaves the handler
Rethrown(details, source) == [kind |-> "threw", details |-> details]

\* catch (error) { ... return errorResult } of processXplData
errorResult(details, source) ==
  [kind |-> "returned", success |-> FALSE,
   error |-> "Failed to process XPL data from KuCoin",
   details |-> details, source |-> source]

\* a summary that counts the upserts attempted instead of those that succeeded
SummaryCountsAttempts(r, saved, closed) ==
  LET buy == Len(allOrders[r].buyOrders)
      sell == Len(allOrders[r].sellOrders)
  IN  [kind |-> "returned", success |-> TRUE,
       message |-> "XPL data processed and saved to database successfully",
       totalBuyOrders |-> buy, totalSellOrders |-> sell,
       totalEntries |-> buy + sell,
       savedToDatabase |-> Len(allOrdersToSave'[r]),
       closedOrders |-> closed, source |-> input[r].source,
       rateLimited |-> ~(buy > 0 \/ sell > 0)]

\* a summary that raises rateLimited as soon as one side is empty
SummaryFlagsOneEmptySide(r, saved, closed) ==
  LET buy == Len(allOrders[r].buyOrders)
      sell == Len(allOrders[r].sellOrders)
  IN  [kind |-> "returned", success |-> TRUE,
       message |-> "XPL data processed and saved to database successfully",
       totalBuyOrders |-> buy, totalSellOrders |-> sell,
       totalEntries |-> buy + sell, savedToDatabase |-> saved,
       closedOrders |-> closed, source |-> input[r].source,
       rateLimited |-> (buy = 0 \/ sell = 0)]

\* the summary of a run that reached the end of processXplData
Summary(r, saved, closed) ==
  LET buy == Len(allOrders[r].buyOrders)
      sell == Len(allOrders[r].sellOrders)
      hasAnyData == buy > 0 \/ sell > 0
  IN  [kind |-> "returned", success |-> TRUE,
       message |-> IF hasAnyData
                   THEN "XPL data processed and saved to database successfully"
                   ELSE "XPL data processing completed - no new data due to rate limiting",
       totalBuyOrders |-> buy, totalSellOrders |-> sell,
       totalEntries |-> buy + sell, savedToDatabase |-> saved,
       closedOrders |-> closed, source |-> input[r].source,
       rateLimited |-> ~hasAnyData]

NoRunLog == [closedOpen |-> {}, closed |-> {}, upserted |-> {}, failed |-> "", saveErrors |-> 0]

\* a close loop that skips the orders already read as close
NextOpenCloseIx(existing, ids, from) ==
  LET S == {i \in from..Len(existing) :
              existing[i].uid \notin ids /\ existing[i].status = "open"}
  IN  IF S = {} THEN 0 ELSE CHOOSE i \in S : \A j \in S : i <= j

\* the first index from `from` on of an existing order absent from the ids
NextCloseIx(existing, ids, from) ==
  LET S == {i \in from..Len(existing) : existing[i].uid \notin ids}
  IN  IF S = {} THEN 0 ELSE CHOOSE i \in S : \A j \in S : i <= j

\* a handler that repeats a rejected persistence call instead of returning
Retries(r, details) ==
  /\ runLog' = [runLog EXCEPT ![r].failed = details]
  /\ UNCHANGED <<pc, result>>

\* an awaited persistence call rejects: the catch of processXplData returns
Fail(r, details) ==
  /\ pc' = [pc EXCEPT ![r] = "done"]
  /\ result' = [result EXCEPT ![r] = errorResult(details, input[r].source)]
  /\ runLog' = [runLog EXCEPT ![r].failed = details]

\* a run that reads the store again between its close loop and its save loop
BeginSaveRereads(r, closed) ==
  /\ closedCount' = [closedCount EXCEPT ![r] = closed]
  /\ closeIx' = [closeIx EXCEPT ![r] = 0]
  /\ pc' = [pc EXCEPT ![r] = "read"]
  /\ UNCHANGED <<allOrdersToSave, savedCount, saveIx, result>>

\* the close loop is over: allOrdersToSave is read, the save loop starts or,
\* with nothing to save, the summary is returned
BeginSave(r, closed) ==
  LET toSave == allOrders[r].buyOrders \o allOrders[r].sellOrders
  IN  /\ closedCount' = [closedCount EXCEPT ![r] = closed]
      /\ closeIx' = [closeIx EXCEPT ![r] = 0]
      /\ allOrdersToSave' = [allOrdersToSave EXCEPT ![r] = toSave]
      /\ savedCount' = [savedCount EXCEPT ![r] = 0]
      /\ IF toSave = <<>>
         THEN /\ pc' = [pc EXCEPT ![r] = "done"]
              /\ result' = [result EXCEPT ![r] = Summary(r, 0, closed)]
              /\ saveIx' = [saveIx EXCEPT ![r] = 0]
         ELSE /\ pc' = [pc EXCEPT ![r] = "save"]
              /\ saveIx' = [saveIx EXCEPT ![r] = 1]
              /\ UNCHANGED result

\* the handler is invoked with the event data; it calls createOrderBooksTable
Start(r, source) ==
  /\ pc[r] = "idle"
  /\ NoMicrotask
  /\ pc' = [pc EXCEPT ![r] = "schema"]
  /\ input' = [input EXCEPT ![r] = [source |-> source]]
  /\ UNCHANGED <<now, storeVars, fetchVars, collVars, reconVars, timedOut, result>>
  /\ UNCHANGED <<retryVars, cronVars, apiVars>>

\* createOrderBooksTable returns: the timer is set, processingPromise runs up
\* to its first await, the race is awaited
CreateTable(r, ok) ==
  /\ pc[r] = "schema"
  /\ NoMicrotask
  /\ dbLog' = DbCall("create", NoArg, ok)
  /\ UNCHANGED <<now, input, timedOut>>
  /\ IF ok
     THEN /\ order_books' = createOrderBooksTable(tableExists, order_books)
          /\ tableExists' = TRUE
          /\ pc' = [pc EXCEPT ![r] = "race"]
          /\ fetchPage(r, requestKey(Sides[1], 1))
          /\ UNCHANGED <<reconVars, result, sideIx, phase, currentPage, totalPages,
                         ordersWithStatus, allOrders, sideStatus>>
     ELSE /\ Fail(r, "createOrderBooksTable failed")
          /\ UNCHANGED <<order_books, tableExists, fetchVars, collVars,
                         existingOrders, newOrderIds, closeIx, closedCount,
                         allOrdersToSave, saveIx, savedCount>>
  /\ UNCHANGED <<retryVars, cronVars, apiVars>>

\* a timer whose rejection is not raced with the collection
TimeoutNotRaced(r) ==
  /\ pc[r] = "race"
  /\ NoMicrotask
  /\ timedOut' = [timedOut EXCEPT ![r] = TRUE]
  /\ UNCHANGED <<now, storeVars, fetchVars, collVars, reconVars, input, result, pc>>
  /\ UNCHANGED <<retryVars, cronVars, apiVars>>

\* setTimeout(() => reject(new Error("Processing timeout")), 15000) fires
\* while the race is on
Timeout(r) ==
  /\ pc[r] = "race"
  /\ NoMicrotask
  /\ timedOut' = [timedOut EXCEPT ![r] = TRUE]
  /\ pc' = [pc EXCEPT ![r] = "read"]
  /\ UNCHANGED <<now, storeVars, fetchVars, collVars, reconVars, input, result>>
  /\ UNCHANGED <<retryVars, cronVars, apiVars>>

\* getAllOrderBooks returns: newOrderIds is built and the close loop runs up to
\* its first updateOrderStatus
GetAll(r, ok) ==
  LET existing == getAllOrderBooks(order_books)
      ids == IdsOf(allOrders[r].buyOrders) \cup IdsOf(allOrders[r].sellOrders)
      ix == NextCloseIx(existing, ids, 1)
  IN  /\ pc[r] = "read"
      /\ NoMicrotask
      /\ dbLog' = DbCall("list", NoArg, QueryOk(ok))
      /\ UNCHANGED <<now, tableExists, order_books, fetchVars, collVars, input, timedOut>>
      /\ IF ~QueryOk(ok)
         THEN /\ Fail(r, "getAllOrderBooks failed")
              /\ UNCHANGED <<existingOrders, newOrderIds, closeIx, closedCount,
                             allOrdersToSave, saveIx, savedCount>>
         ELSE /\ existingOrders' = [existingOrders EXCEPT ![r] = existing]
              /\ newOrderIds' = [newOrderIds EXCEPT ![r] = ids]
              /\ UNCHANGED runLog
              /\ IF ix # 0
                 THEN /\ pc' = [pc EXCEPT ![r] = "close"]
                      /\ closeIx' = [closeIx EXCEPT ![r] = ix]
                      /\ closedCount' = [closedCount EXCEPT ![r] = 0]
                      /\ UNCHANGED <<result, allOrdersToSave, saveIx, savedCount>>
                 ELSE BeginSave(r, 0)
      /\ UNCHANGED <<retryVars, cronVars, apiVars>>

\* updateOrderStatus(existingOrder.uid, "close") returns: the loop goes on to
\* the next absent order, or to the save loop
Close(r, ok) ==
  LET uid == existingOrders[r][closeIx[r]].uid
      wasOpen == HasUid(order_books, uid) /\ RowOf(order_books, uid).status = "open"
      ix == NextCloseIx(existingOrders[r], newOrderIds[r], closeIx[r] + 1)
  IN  /\ pc[r] = "close"
      /\ NoMicrotask
      /\ dbLog' = DbCall("setStatus", StatusArg(uid, "close"), QueryOk(ok))
      /\ UNCHANGED <<now, tableExists, fetchVars, collVars, input, timedOut,
                     existingOrders, newOrderIds>>
      /\ IF ~QueryOk(ok)
         THEN /\ Fail(r, "updateOrderStatus failed")
              /\ UNCHANGED <<order_books, closeIx, closedCount, allOrdersToSave,
                             saveIx, savedCount>>
         ELSE /\ order_books' = updateOrderStatus(order_books, uid, "close", now)
              /\ runLog' = [runLog EXCEPT
                              ![r].closed = @ \cup {uid},
                              ![r].closedOpen = IF wasOpen THEN @ \cup {uid} ELSE @]
              /\ IF ix # 0
                 THEN /\ closeIx' = [closeIx EXCEPT ![r] = ix]
                      /\ closedCount' = [closedCount EXCEPT ![r] = closedCount[r] + 1]
                      /\ UNCHANGED <<pc, result, allOrdersToSave, saveIx, savedCount>>
                 ELSE BeginSave(r, closedCount[r] + 1)
      /\ UNCHANGED <<retryVars, cronVars, apiVars>>

\* insertOrderBook returns or rejects (caught per record): the loop goes on,
\* or the summary is returned
Save(r, ok) ==
  LET arg == OrderArg(allOrdersToSave[r][saveIx[r]])
      good == QueryOk(ok) /\ ~ViolatesNotNull(arg)
      saved == IF good THEN savedCount[r] + 1 ELSE savedCount[r]
  IN  /\ pc[r] = "save"
      /\ NoMicrotask
      /\ dbLog' = DbCall("upsert", arg, good)
      /\ order_books' = IF good THEN insertOrderBook(order_books, arg, now)
                        ELSE order_books
      /\ runLog' = [runLog EXCEPT
                      ![r].upserted = IF good THEN @ \cup {arg.uid} ELSE @,
                      ![r].saveErrors = IF good THEN @ ELSE @ + 1]
      /\ savedCount' = [savedCount EXCEPT ![r] = saved]
      /\ UNCHANGED <<now, tableExists, fetchVars, collVars, input, timedOut,
                     existingOrders, newOrderIds, closeIx, closedCount, allOrdersToSave>>
      /\ IF saveIx[r] < Len(allOrdersToSave[r])
         THEN /\ saveIx' = [saveIx EXCEPT ![r] = saveIx[r] + 1]
              /\ UNCHANGED <<pc, result>>
         ELSE /\ pc' = [pc EXCEPT ![r] = "done"]
              /\ result' = [result EXCEPT ![r] = Summary(r, saved, closedCount[r])]
              /\ UNCHANGED saveIx
      /\ UNCHANGED <<retryVars, cronVars, apiVars>>

StoreCreate(ok) ==
  /\ dbLog' = DbCall("create", NoArg, ok)
  /\ IF ok
     THEN /\ order_books' = createOrderBooksTable(tableExists, order_books)
          /\ tableExists' = TRUE
     ELSE UNCHANGED <<order_books, tableExists>>
  /\ UNCHANGED <<now, pipelineVars>>
  /\ UNCHANGED <<retryVars, cronVars, apiVars>>

StoreUpsert(order, ok) ==
  LET good == QueryOk(ok) /\ ~ViolatesNotNull(order) IN
  /\ dbLog' = DbCall("upsert", order, good)
  /\ order_books' = IF good THEN insertOrderBook(order_books, order, now)
                    ELSE order_books
  /\ UNCHANGED <<now, tableExists, pipelineVars>>
  /\ UNCHANGED <<retryVars, cronVars, apiVars>>

StoreSetStatus(uid, status, ok) ==
  /\ dbLog' = DbCall("setStatus", StatusArg(uid, status), QueryOk(ok))
  /\ order_books' = IF QueryOk(ok)
                    THEN updateOrderStatus(order_books, uid, status, now)
                    ELSE order_books
  /\ UNCHANGED <<now, tableExists, pipelineVars>>
  /\ UNCHANGED <<retryVars, cronVars, apiVars>>

StoreList(ok) ==
  /\ dbLog' = DbCall("list", NoArg, QueryOk(ok))
  /\ UNCHANGED <<now, tableExists, order_books, pipelineVars>>
  /\ UNCHANGED <<retryVars, cronVars, apiVars>>

\* the clock advances
Tick ==
  /\ NoMicrotask
  /\ now < MaxTicks * TickMs
  /\ now' = now + TickMs
  /\ UNCHANGED <<storeVars, pipelineVars>>
  /\ UNCHANGED <<retryVars, cronVars, apiVars>>

(***************************************************************************)
(* Retry variant, src/steps/process-xpl-data.step.ts: fetchPage retries a  *)
(* failed request after a growing delay; processXplData collects the two   *)
(* sides page by page.  One run, followed up to its read of the store.     *)
(***************************************************************************)
\* fetchPage's default parameters
retries == 3
DefaultDelay == 2000

\* a fetchPage whose delay stays the same from one attempt to the next
SameDelay(d) == d

\* delay *= 2
NextDelay(d) == d * 2

\* what the upstream can do with one attempt: a 2xx answer with a JSON body,
\* HTTP 429, or anything that throws inside the try block (another non-2xx
\* status, a network failure, a body that is not JSON)
Statuses == {"ok", "429", "error"}

NoCallLog == [responses |-> <<>>, waits |-> <<>>, outcome |-> "none"]

RetryIdle(at) ==
  /\ attempt = 0
  /\ delay = 0
  /\ rvPc = at
  /\ rvSideIx = 1
  /\ rvPhase = "first"
  /\ rvCurrentPage = 0
  /\ rvTotalPages = 0
  /\ rvResult = NoResult
  /\ rvAllOrders = NoOrders
  /\ rvSideStatus = [s \in SideNames |-> "pending"]
  /\ rvCallLog = NoCallLog

\* a call of fetchPage up to its first await fetch(...)
RvFetchPage ==
  /\ attempt' = 1
  /\ delay' = DefaultDelay
  /\ rvPc' = "fetch"
  /\ rvCallLog' = [responses |-> <<>>, waits |-> <<>>, outcome |-> "pending"]

\* the side's try block is left, normally or through its catch: the next
\* side waits a second before its first request; after the last side the run
\* reads the store
RvSideDone(status) ==
  /\ rvSideStatus' = [rvSideStatus EXCEPT ![Sides[rvSideIx]] = status]
  /\ rvPc' = IF rvSideIx < Len(Sides) THEN "sidePause" ELSE "read"
  /\ UNCHANGED <<attempt, delay, rvSideIx, rvPhase, rvCurrentPage, rvTotalPages>>

\* allOrders.<side>Orders.push(...ordersWithStatus)
PushSide(all, side, list) ==
  IF side = "buy" THEN [all EXCEPT !.buyOrders = all.buyOrders \o list]
  ELSE [all EXCEPT !.sellOrders = all.sellOrders \o list]

\* the handler is invoked; a cron call waits two seconds first
RvStart(source) ==
  /\ rvPc = "idle"
  /\ rvPc' = IF source = "cron" THEN "startPause" ELSE "schema"
  /\ UNCHANGED <<attempt, delay, rvSideIx, rvPhase, rvCurrentPage, rvTotalPages,
                 rvResult, rvAllOrders, rvSideStatus, rvCallLog>>
  /\ UNCHANGED <<cronVars, apiVars, now, storeVars, pipelineVars>>

\* a setTimeout the run awaits outside fetchPage fires
RvPauseEnds ==
  /\ rvPc \in {"startPause", "sidePause", "pagePause"}
  /\ UNCHANGED <<cronVars, apiVars, now, storeVars, pipelineVars, rvSideStatus>>
  /\ IF rvPc = "startPause"
     THEN /\ rvPc' = "schema"
          /\ UNCHANGED <<attempt, delay, rvSideIx, rvPhase, rvCurrentPage,
                         rvTotalPages, rvResult, rvAllOrders, rvCallLog>>
     ELSE IF rvPc = "sidePause"
     THEN /\ rvSideIx' = rvSideIx + 1
          /\ rvPhase' = "first"
          /\ RvFetchPage
          /\ UNCHANGED <<rvCurrentPage, rvTotalPages, rvResult, rvAllOrders>>
     ELSE /\ rvAllOrders' = PushSide(rvAllOrders, Sides[rvSideIx],
                                     WithStatusOpen(OrdersOf(rvResult)))
          /\ rvCurrentPage' = rvCurrentPage + 1
          /\ RvFetchPage
          /\ UNCHANGED <<rvSideIx, rvPhase, rvTotalPages, rvResult>>

\* await createOrderBooksTable() settles
RvCreateTable(ok) ==
  /\ rvPc = "schema"
  /\ dbLog' = DbCall("create", NoArg, ok)
  /\ UNCHANGED <<cronVars, apiVars, now, pipelineVars, rvSideIx, rvPhase, rvCurrentPage,
                 rvTotalPages, rvResult, rvAllOrders, rvSideStatus>>
  /\ IF ok
     THEN /\ order_books' = createOrderBooksTable(tableExists, order_books)
          /\ tableExists' = TRUE
          /\ RvFetchPage
     ELSE /\ rvPc' = "failed"
          /\ UNCHANGED <<order_books, tableExists, attempt, delay, rvCallLog>>

\* await fetch(...) of the current attempt settles
RvFetchSettles(status, body) ==
  LET side == Sides[rvSideIx]
      seen == Append(rvCallLog.responses, status)
  IN  /\ rvPc = "fetch"
      /\ UNCHANGED <<cronVars, apiVars, now, storeVars, pipelineVars>>
      /\ IF status # "ok"
         THEN IF attempt < retries
              THEN /\ rvPc' = "backoff"
                   /\ rvCallLog' = [responses |-> seen,
                                    waits |-> Append(rvCallLog.waits, delay),
                                    outcome |-> "pending"]
                   /\ UNCHANGED <<attempt, delay, rvSideIx, rvPhase, rvCurrentPage,
                                  rvTotalPages, rvResult, rvAllOrders, rvSideStatus>>
              ELSE /\ rvCallLog' = [rvCallLog EXCEPT !.responses = seen,
                                                     !.outcome = "threw"]
                   /\ RvSideDone("failed")
                   /\ UNCHANGED <<rvResult, rvAllOrders>>
         ELSE IF rvPhase = "first"
         THEN IF NoPages(body)
              THEN /\ rvCallLog' = [rvCallLog EXCEPT !.responses = seen,
                                                     !.outcome = "returned"]
                   /\ RvSideDone("failed")
                   /\ UNCHANGED <<rvResult, rvAllOrders>>
              ELSE /\ rvTotalPages' = body.totalPage
                   /\ rvCurrentPage' = 1
                   /\ rvPhase' = "loop"
                   /\ RvFetchPage
                   /\ UNCHANGED <<rvSideIx, rvResult, rvAllOrders, rvSideStatus>>
         ELSE /\ rvCallLog' = [rvCallLog EXCEPT !.responses = seen,
                                                !.outcome = "returned"]
              /\ IF rvCurrentPage < rvTotalPages
                 THEN /\ rvPc' = "pagePause"
                      /\ rvResult' = body
                      /\ UNCHANGED <<attempt, delay, rvSideIx, rvPhase, rvCurrentPage,
                                     rvTotalPages, rvAllOrders, rvSideStatus>>
                 ELSE /\ rvAllOrders' = PushSide(rvAllOrders, side,
                                                 WithStatusOpen(OrdersOf(body)))
                      /\ RvSideDone("complete")
                      /\ UNCHANGED rvResult

\* the setTimeout(delay) after a failed attempt fires: the delay doubles and
\* the next attempt is sent
RvBackoffEnds ==
  /\ rvPc = "backoff"
  /\ delay' = NextDelay(delay)
  /\ attempt' = attempt + 1
  /\ rvPc' = "fetch"
  /\ UNCHANGED <<rvSideIx, rvPhase, rvCurrentPage, rvTotalPages, rvResult,
                 rvAllOrders, rvSideStatus, rvCallLog>>
  /\ UNCHANGED <<cronVars, apiVars, now, storeVars, pipelineVars>>

(***************************************************************************)
(* FetchXplCron (src/steps/xpl/fetch-xpl-cron.step.ts, part_002) and the   *)
(* delivery of xpl.fetch.requested to ProcessXplData (part_003 11-22).     *)
(***************************************************************************)
NoCronLog == [execs |-> 0, emitted |-> 0, delivered |-> 0, thrown |-> 0, errors |-> 0]

CronHandlers == {"logOnly", "emit", "http"}

CronIdle(handlers, at) ==
  /\ cronHandler \in handlers
  /\ cronPc = at
  /\ topic = <<>>
  /\ cronLog = NoCronLog

\* the data part_002 passes to emit (traceId left out)
CronEvent == [source |-> "cron"]

\* the schedule fires and the handler runs: the one of fetch-xpl-cron.step.ts
\* logs and returns without a call of emit, the one of part_002 runs up to
\* its await emit(...)
CronFire ==
  /\ cronPc = "idle"
  /\ cronLog.execs < NumRuns
  /\ IF cronHandler = "logOnly"
     THEN /\ cronLog' = [cronLog EXCEPT !.execs = @ + 1]
          /\ UNCHANGED cronPc
     ELSE /\ cronPc' = cronHandler
          /\ UNCHANGED cronLog
  /\ UNCHANGED <<cronHandler, topic, now, storeVars, pipelineVars, retryVars, apiVars>>

\* a trigger whose catch block never throws again
RethrowsNever(handler) == FALSE

\* the catch block of part_002 ends with throw error; the catch blocks of
\* fetch-xpl-cron.step.ts and part_004 only log
Rethrows(handler) == handler = "emit"

\* part_002: emit settles; a rejection is logged and thrown again
CronEmitSettles(ok) ==
  /\ cronPc = "emit"
  /\ cronPc' = "idle"
  /\ topic' = IF ok THEN Append(topic, CronEvent) ELSE topic
  /\ cronLog' = [cronLog EXCEPT
                   !.execs = @ + 1,
                   !.emitted = IF ok THEN @ + 1 ELSE @,
                   !.errors = IF ok THEN @ ELSE @ + 1,
                   !.thrown = IF ~ok /\ Rethrows(cronHandler) THEN @ + 1 ELSE @]
  /\ UNCHANGED <<cronHandler, now, storeVars, pipelineVars, retryVars, apiVars>>

\* what the GET of http://localhost:3000/fetch-xpl can come to: the fetch
\* rejects, the status is not 2xx, the body says success false or true
HttpAnswers == {"rejected", "notOk", "failure", "success"}

\* part_004: the request to /fetch-xpl settles; every failure is thrown
\* inside the try and logged by the catch, which returns
CronHttpSettles(answer) ==
  /\ cronPc = "http"
  /\ cronPc' = "idle"
  /\ cronLog' = [cronLog EXCEPT
                   !.execs = @ + 1,
                   !.errors = IF answer = "success" THEN @ ELSE @ + 1,
                   !.thrown = IF answer # "success" /\ Rethrows(cronHandler)
                              THEN @ + 1 ELSE @]
  /\ UNCHANGED <<cronHandler, topic, now, storeVars, pipelineVars, retryVars, apiVars>>

\* subscribes: ["xpl.fetch.requested"]: the event at the head of the topic
\* invokes the ProcessXplData handler once
Deliver(r) ==
  /\ topic # <<>>
  /\ pc[r] = "off"
  /\ \A q \in Runs : q < r => pc[q] # "off"
  /\ NoMicrotask
  /\ pc' = [pc EXCEPT ![r] = "idle"]
  /\ topic' = Tail(topic)
  /\ cronLog' = [cronLog EXCEPT !.delivered = @ + 1]
  /\ UNCHANGED <<cronHandler, cronPc, now, storeVars, fetchVars, collVars, reconVars,
                 input, timedOut, result, retryVars, apiVars>>

(***************************************************************************)
(* XplDataApi: GET /fetch-xpl (steps/fetch-xpl.step.ts 35-241).            *)
(***************************************************************************)
NoResponse == [status |-> 0]

NoApiLog == [fetchFailed |-> FALSE, before |-> <<>>, writes |-> {}]

ApiIdle(at) ==
  /\ apiPc = at
  /\ apiSideIx = 1
  /\ apiPhase = "first"
  /\ apiCurrentPage = 0
  /\ apiTotalPages = 0
  /\ apiAllOrders = NoOrders
  /\ apiExistingOrders = <<>>
  /\ apiIx = 0
  /\ apiToSave = <<>>
  /\ apiSavedCount = 0
  /\ apiResponse = NoResponse
  /\ apiLog = NoApiLog

\* a helper that answers a failed request with an empty page
ApiSwallows(outcome, body) ==
  IF outcome = "ok" THEN Settled(FALSE, body) ELSE Settled(FALSE, RateLimitedResult)

\* the helper fetchPage of fetch-xpl.step.ts: throws when fetch rejects or
\* the status is not 2xx (429 included), returns the parsed body otherwise
ApiSettled(outcome, body) ==
  IF outcome = "ok" THEN Settled(FALSE, body) ELSE Settled(TRUE, NoResult)

\* return { status: 200, body: { success: true, ... } }
ApiOk(all, saved) ==
  [status |-> 200, success |-> TRUE,
   message |-> "XPL data fetched and saved to database successfully",
   totalBuyOrders |-> Len(all.buyOrders), totalSellOrders |-> Len(all.sellOrders),
   totalEntries |-> Len(all.buyOrders) + Len(all.sellOrders),
   savedToDatabase |-> saved]

\* the outer catch: return { status: 500, body: { success: false, error } }
ApiFail ==
  /\ apiPc' = "done"
  /\ apiResponse' = [status |-> 500, success |-> FALSE,
                     error |-> "Failed to fetch XPL data from KuCoin"]

\* allOrders.buyOrders.push(...) / allOrders.sellOrders.push(...)
ApiPush(all, side, list) ==
  IF side = "buy" THEN [all EXCEPT !.buyOrders = @ \o list]
  ELSE [all EXCEPT !.sellOrders = @ \o list]

\* the request arrives and the handler calls createOrderBooksTable
ApiRequest ==
  /\ apiPc = "idle"
  /\ apiPc' = "schema"
  /\ apiLog' = [apiLog EXCEPT !.before = order_books]
  /\ UNCHANGED <<apiSideIx, apiPhase, apiCurrentPage, apiTotalPages, apiAllOrders,
                 apiExistingOrders, apiIx, apiToSave, apiSavedCount, apiResponse>>
  /\ UNCHANGED <<now, storeVars, pipelineVars, retryVars, cronVars>>

\* createOrderBooksTable returns: the first page of the buy side is requested
ApiCreateTable(ok) ==
  /\ apiPc = "schema"
  /\ dbLog' = DbCall("create", NoArg, ok)
  /\ IF ok
     THEN /\ order_books' = createOrderBooksTable(tableExists, order_books)
          /\ tableExists' = TRUE
          /\ apiPc' = "fetch"
          /\ UNCHANGED apiResponse
     ELSE /\ ApiFail
          /\ UNCHANGED <<order_books, tableExists>>
  /\ UNCHANGED <<apiSideIx, apiPhase, apiCurrentPage, apiTotalPages, apiAllOrders,
                 apiExistingOrders, apiIx, apiToSave, apiSavedCount, apiLog>>
  /\ UNCHANGED <<now, pipelineVars, retryVars, cronVars>>

\* the page loop of a side is over: the next side starts, or the handler
\* calls getAllOrderBooks
ApiSideDone(all) ==
  /\ apiAllOrders' = all
  /\ apiPhase' = "first"
  /\ apiCurrentPage' = 0
  /\ apiTotalPages' = 0
  /\ IF apiSideIx < Len(Sides)
     THEN /\ apiSideIx' = apiSideIx + 1
          /\ UNCHANGED apiPc
     ELSE /\ apiPc' = "read"
          /\ UNCHANGED apiSideIx

\* an awaited fetchPage settles: a rejection reaches the outer catch, the
\* first answer of a side sets totalPages, an answer of the page loop is
\* pushed onto the side's list
ApiFetchSettles(outcome, body) ==
  LET v == ApiSettled(outcome, body)
      side == Sides[apiSideIx]
      pushed == ApiPush(apiAllOrders, side, WithStatusOpen(OrdersOf(v.result)))
  IN  /\ apiPc = "fetch"
      /\ apiLog' = [apiLog EXCEPT !.fetchFailed = @ \/ outcome # "ok"]
      /\ IF v.threw
         THEN /\ ApiFail
              /\ UNCHANGED <<apiSideIx, apiPhase, apiCurrentPage, apiTotalPages,
                             apiAllOrders>>
         ELSE /\ UNCHANGED apiResponse
              /\ IF apiPhase = "first"
                 THEN IF 1 <= v.result.totalPage
                      THEN /\ apiTotalPages' = v.result.totalPage
                           /\ apiCurrentPage' = 1
                           /\ apiPhase' = "loop"
                           /\ UNCHANGED <<apiPc, apiSideIx, apiAllOrders>>
                      ELSE ApiSideDone(apiAllOrders)
                 ELSE IF NextPage(apiCurrentPage) <= apiTotalPages
                      THEN /\ apiAllOrders' = pushed
                           /\ apiCurrentPage' = NextPage(apiCurrentPage)
                           /\ UNCHANGED <<apiPc, apiSideIx, apiPhase, apiTotalPages>>
                      ELSE ApiSideDone(pushed)
      /\ UNCHANGED <<apiExistingOrders, apiIx, apiToSave, apiSavedCount>>
      /\ UNCHANGED <<now, storeVars, pipelineVars, retryVars, cronVars>>

\* the close loop is over: the save loop starts or, with nothing to save, the
\* handler returns 200
ApiBeginSave ==
  LET toSave == apiAllOrders.buyOrders \o apiAllOrders.sellOrders
  IN  /\ apiToSave' = toSave
      /\ apiSavedCount' = 0
      /\ IF toSave = <<>>
         THEN /\ apiPc' = "done"
              /\ apiResponse' = ApiOk(apiAllOrders, 0)
              /\ apiIx' = 0
         ELSE /\ apiPc' = "save"
              /\ apiIx' = 1
              /\ UNCHANGED apiResponse

\* getAllOrderBooks returns: the close loop runs up to its first
\* updateOrderStatus
ApiGetAll(ok) ==
  LET existing == getAllOrderBooks(order_books)
      ids == IdsOf(apiAllOrders.buyOrders) \cup IdsOf(apiAllOrders.sellOrders)
      ix == NextCloseIx(existing, ids, 1)
  IN  /\ apiPc = "read"
      /\ dbLog' = DbCall("list", NoArg, QueryOk(ok))
      /\ IF ~QueryOk(ok)
         THEN /\ ApiFail
              /\ UNCHANGED <<apiExistingOrders, apiIx, apiToSave, apiSavedCount>>
         ELSE /\ apiExistingOrders' = existing
              /\ IF ix # 0
                 THEN /\ apiPc' = "close"
                      /\ apiIx' = ix
                      /\ UNCHANGED <<apiToSave, apiSavedCount, apiResponse>>
                 ELSE ApiBeginSave
      /\ UNCHANGED <<apiSideIx, apiPhase, apiCurrentPage, apiTotalPages, apiAllOrders,
                     apiLog>>
      /\ UNCHANGED <<now, tableExists, order_books, pipelineVars, retryVars, cronVars>>

\* updateOrderStatus(existingOrder.uid, "close") returns
ApiClose(ok) ==
  LET uid == apiExistingOrders[apiIx].uid
      ids == IdsOf(apiAllOrders.buyOrders) \cup IdsOf(apiAllOrders.sellOrders)
      ix == NextCloseIx(apiExistingOrders, ids, apiIx + 1)
  IN  /\ apiPc = "close"
      /\ dbLog' = DbCall("setStatus", StatusArg(uid, "close"), QueryOk(ok))
      /\ IF ~QueryOk(ok)
         THEN /\ ApiFail
              /\ UNCHANGED <<order_books, apiIx, apiToSave, apiSavedCount, apiLog>>
         ELSE /\ order_books' = updateOrderStatus(order_books, uid, "close", now)
              /\ apiLog' = [apiLog EXCEPT !.writes = @ \cup {uid}]
              /\ IF ix # 0
                 THEN /\ apiIx' = ix
                      /\ UNCHANGED <<apiPc, apiToSave, apiSavedCount, apiResponse>>
                 ELSE ApiBeginSave
      /\ UNCHANGED <<apiSideIx, apiPhase, apiCurrentPage, apiTotalPages, apiAllOrders,
                     apiExistingOrders>>
      /\ UNCHANGED <<now, tableExists, pipelineVars, retryVars, cronVars>>

\* insertOrderBook returns or rejects (caught per record)
ApiSave(ok) ==
  LET arg == OrderArg(apiToSave[apiIx])
      good == QueryOk(ok) /\ ~ViolatesNotNull(arg)
      saved == IF good THEN apiSavedCount + 1 ELSE apiSavedCount
  IN  /\ apiPc = "save"
      /\ dbLog' = DbCall("upsert", arg, good)
      /\ order_books' = IF good THEN insertOrderBook(order_books, arg, now)
                        ELSE order_books
      /\ apiLog' = [apiLog EXCEPT !.writes = IF good THEN @ \cup {arg.uid} ELSE @]
      /\ apiSavedCount' = saved
      /\ IF apiIx < Len(apiToSave)
         THEN /\ apiIx' = apiIx + 1
              /\ UNCHANGED <<apiPc, apiResponse>>
         ELSE /\ apiPc' = "done"
              /\ apiResponse' = ApiOk(apiAllOrders, saved)
              /\ UNCHANGED apiIx
      /\ UNCHANGED <<apiSideIx, apiPhase, apiCurrentPage, apiTotalPages, apiAllOrders,
                     apiExistingOrders, apiToSave>>
      /\ UNCHANGED <<now, tableExists, pipelineVars, retryVars, cronVars>>

(***************************************************************************)
(* Initial states and specifications.                                      *)
(***************************************************************************)
InitPipeline ==
  /\ requestCache = [k \in Keys |-> NoEntry]
  /\ pendingRequests = [k \in Keys |-> 0]
  /\ inflight = [r \in Runs |-> NoKey]
  /\ awaiting = [r \in Runs |-> 0]
  /\ inbox = [r \in Runs |-> NoSettled]
  /\ reqLog = [k \in Keys |-> NoReq]
  /\ cpc = [r \in Runs |-> "idle"]
  /\ sideIx = [r \in Runs |-> 1]
  /\ phase = [r \in Runs |-> "first"]
  /\ currentPage = [r \in Runs |-> 0]
  /\ totalPages = [r \in Runs |-> 0]
  /\ ordersWithStatus = [r \in Runs |-> <<>>]
  /\ allOrders = [r \in Runs |-> NoOrders]
  /\ sideStatus = [r \in Runs |-> [s \in SideNames |-> "pending"]]
  /\ input = [r \in Runs |-> NoInput]
  /\ timedOut = [r \in Runs |-> FALSE]
  /\ result = [r \in Runs |-> NotReturned]
  /\ existingOrders = [r \in Runs |-> <<>>]
  /\ newOrderIds = [r \in Runs |-> {}]
  /\ closeIx = [r \in Runs |-> 0]
  /\ closedCount = [r \in Runs |-> 0]
  /\ allOrdersToSave = [r \in Runs |-> <<>>]
  /\ saveIx = [r \in Runs |-> 0]
  /\ savedCount = [r \in Runs |-> 0]
  /\ runLog = [r \in Runs |-> NoRunLog]

\* rows left by earlier invocations
StoredRow(raw, status) == Row([OrderArg(raw) EXCEPT !.status = status], 0, 0)

InitTables ==
  { <<>>,
    <<StoredRow(RawB, "open")>>,
    <<StoredRow(RawA, "close"), StoredRow(RawB, "open")>> }

Sources == {"cron", Undefined}

\* the gateway driven directly
InitStore ==
  /\ now = 0
  /\ tableExists = FALSE
  /\ order_books = <<>>
  /\ dbLog = NoCall
  /\ InitPipeline
  /\ pc = [r \in Runs |-> "off"]
  /\ RetryIdle("off")
  /\ CronIdle({"none"}, "off")
  /\ ApiIdle("off")

NextStore ==
  \/ \E ok \in BOOLEAN : StoreCreate(ok)
  \/ \E order \in StoreOrders, ok \in BOOLEAN : StoreUpsert(order, ok)
  \/ \E uid \in Uids, status \in {"open", "close"}, ok \in BOOLEAN :
        StoreSetStatus(uid, status, ok)
  \/ \E ok \in BOOLEAN : StoreList(ok)
  \/ Tick

SpecStore == InitStore /\ [][NextStore]_vars

\* one invocation of the handler on a store left by earlier invocations
Init ==
  /\ now = 0
  /\ \E tbl \in InitTables : order_books = tbl /\ tableExists = (tbl # <<>>)
  /\ dbLog = NoCall
  /\ InitPipeline
  /\ pc = [r \in Runs |-> IF r = 1 THEN "idle" ELSE "off"]
  /\ RetryIdle("off")
  /\ CronIdle({"none"}, "off")
  /\ ApiIdle("off")

Next ==
  \/ \E r \in Runs, source \in Sources : Start(r, source)
  \/ \E r \in Runs, ok \in BOOLEAN : CreateTable(r, ok)
  \/ \E p \in Runs, outcome \in {"429", "error"} : HttpComplete(p, outcome, NoResult)
  \/ \E p \in Runs : \E body \in Envelopes(inflight[p].side, inflight[p].page) :
        HttpComplete(p, "ok", body)
  \/ \E r \in Runs : Resume(r)
  \/ \E r \in Runs : Timeout(r)
  \/ \E r \in Runs, ok \in BOOLEAN : GetAll(r, ok)
  \/ \E r \in Runs, ok \in BOOLEAN : Close(r, ok)
  \/ \E r \in Runs, ok \in BOOLEAN : Save(r, ok)
  \/ Tick

Spec == Init /\ [][Next]_vars

\* the collection phases of overlapping invocations, which share the fetcher
InitFetch ==
  /\ now = 0
  /\ tableExists = FALSE
  /\ order_books = <<>>
  /\ dbLog = NoCall
  /\ InitPipeline
  /\ pc = [r \in Runs |-> "idle"]
  /\ RetryIdle("off")
  /\ CronIdle({"none"}, "off")
  /\ ApiIdle("off")

NextFetch ==
  \/ \E r \in Runs : Start(r, "cron")
  \/ \E r \in Runs : CreateTable(r, TRUE)
  \/ \E p \in Runs, outcome \in {"429", "error"} : HttpComplete(p, outcome, NoResult)
  \/ \E p \in Runs : \E body \in Envelopes(inflight[p].side, inflight[p].page) :
        HttpComplete(p, "ok", body)
  \/ \E r \in Runs : Resume(r)
  \/ Tick

SpecFetch == InitFetch /\ [][NextFetch]_vars

\* the next xpl.fetch.requested event is delivered once the run before it
\* has returned
Rerun(r) ==
  /\ r > 1
  /\ pc[r] = "off"
  /\ pc[r - 1] = "done"
  /\ NoMicrotask
  /\ pc' = [pc EXCEPT ![r] = "idle"]
  /\ UNCHANGED <<now, storeVars, fetchVars, collVars, reconVars, input, timedOut, result>>
  /\ UNCHANGED <<retryVars, cronVars, apiVars>>

\* consecutive runs whose collection ends before the deadline and whose
\* persistence calls succeed
NextRerun ==
  \/ \E r \in Runs : Start(r, "cron")
  \/ \E r \in Runs : CreateTable(r, TRUE)
  \/ \E p \in Runs, outcome \in {"429", "error"} : HttpComplete(p, outcome, NoResult)
  \/ \E p \in Runs : \E body \in Envelopes(inflight[p].side, inflight[p].page) :
        HttpComplete(p, "ok", body)
  \/ \E r \in Runs : Resume(r)
  \/ \E r \in Runs : GetAll(r, TRUE)
  \/ \E r \in Runs : Close(r, TRUE)
  \/ \E r \in Runs : Save(r, TRUE)
  \/ \E r \in Runs : Rerun(r)
  \/ Tick

SpecRerun == Init /\ [][NextRerun]_vars

\* overlapping invocations on a store left by earlier ones
InitPair ==
  /\ now = 0
  /\ \E tbl \in InitTables : order_books = tbl /\ tableExists = (tbl # <<>>)
  /\ dbLog = NoCall
  /\ InitPipeline
  /\ pc = [r \in Runs |-> "idle"]
  /\ RetryIdle("off")
  /\ CronIdle({"none"}, "off")
  /\ ApiIdle("off")

\* the runs interleave at every await within one tick of the clock; their
\* collection ends before the deadline and their persistence calls succeed
NextPair ==
  \/ \E r \in Runs : Start(r, "cron")
  \/ \E r \in Runs : CreateTable(r, TRUE)
  \/ \E p \in Runs, outcome \in {"429", "error"} : HttpComplete(p, outcome, NoResult)
  \/ \E p \in Runs : \E body \in Envelopes(inflight[p].side, inflight[p].page) :
        HttpComplete(p, "ok", body)
  \/ \E r \in Runs : Resume(r)
  \/ \E r \in Runs : GetAll(r, TRUE)
  \/ \E r \in Runs : Close(r, TRUE)
  \/ \E r \in Runs : Save(r, TRUE)

SpecPair == InitPair /\ [][NextPair]_vars

InitRetry ==
  /\ now = 0
  /\ \E tbl \in InitTables : order_books = tbl /\ tableExists = (tbl # <<>>)
  /\ dbLog = NoCall
  /\ InitPipeline
  /\ pc = [r \in Runs |-> "off"]
  /\ RetryIdle("idle")
  /\ CronIdle({"none"}, "off")
  /\ ApiIdle("off")

NextRetry ==
  \/ \E source \in {"api", "cron"} : RvStart(source)
  \/ RvPauseEnds
  \/ \E ok \in BOOLEAN : RvCreateTable(ok)
  \/ \E status \in {"429", "error"} : RvFetchSettles(status, NoResult)
  \/ \E body \in Envelopes(Sides[rvSideIx], IF rvPhase = "first" THEN 1 ELSE rvCurrentPage) :
       RvFetchSettles("ok", body)
  \/ RvBackoffEnds

SpecRetry == InitRetry /\ [][NextRetry]_vars

\* the schedule fires, the events reach ProcessXplData; the runs' collection
\* ends before the deadline and their persistence calls succeed
InitCron ==
  /\ now = 0
  /\ \E tbl \in InitTables : order_books = tbl /\ tableExists = (tbl # <<>>)
  /\ dbLog = NoCall
  /\ InitPipeline
  /\ pc = [r \in Runs |-> "off"]
  /\ RetryIdle("off")
  /\ CronIdle(CronHandlers, "idle")
  /\ ApiIdle("off")

NextCron ==
  \/ CronFire
  \/ \E ok \in BOOLEAN : CronEmitSettles(ok)
  \/ \E answer \in HttpAnswers : CronHttpSettles(answer)
  \/ \E r \in Runs : Deliver(r)
  \/ \E r \in Runs : Start(r, CronEvent.source)
  \/ \E r \in Runs : CreateTable(r, TRUE)
  \/ \E p \in Runs, outcome \in {"429", "error"} : HttpComplete(p, outcome, NoResult)
  \/ \E p \in Runs : \E body \in Envelopes(inflight[p].side, inflight[p].page) :
        HttpComplete(p, "ok", body)
  \/ \E r \in Runs : Resume(r)
  \/ \E r \in Runs : GetAll(r, TRUE)
  \/ \E r \in Runs : Close(r, TRUE)
  \/ \E r \in Runs : Save(r, TRUE)

SpecCron == InitCron /\ [][NextCron]_vars

\* One run under a fair event loop: a pending microtask runs, the 15 s timer
\* fires, and every persistence call returns or rejects. Nothing obliges the
\* upstream to answer a request.
LiveFairness ==
  /\ \A r \in Runs : WF_vars(Resume(r))
  /\ \A r \in Runs : WF_vars(Timeout(r))
  /\ \A r \in Runs : WF_vars(\E ok \in BOOLEAN : CreateTable(r, ok))
  /\ \A r \in Runs : WF_vars(\E ok \in BOOLEAN : GetAll(r, ok))
  /\ \A r \in Runs : WF_vars(\E ok \in BOOLEAN : Close(r, ok))
  /\ \A r \in Runs : WF_vars(\E ok \in BOOLEAN : Save(r, ok))

SpecLive == Init /\ [][Next]_vars /\ LiveFairness

\* One GET /fetch-xpl on a pre-filled store.
InitApi ==
  /\ now = 0
  /\ \E tbl \in InitTables : order_books = tbl /\ tableExists = (tbl # <<>>)
  /\ dbLog = NoCall
  /\ InitPipeline
  /\ pc = [r \in Runs |-> "off"]
  /\ RetryIdle("off")
  /\ CronIdle({"none"}, "off")
  /\ ApiIdle("idle")

NextApi ==
  \/ ApiRequest
  \/ \E ok \in BOOLEAN : ApiCreateTable(ok)
  \/ \E outcome \in {"429", "error"} : ApiFetchSettles(outcome, NoResult)
  \/ \E body \in Envelopes(Sides[apiSideIx],
                           IF apiPhase = "first" THEN 1 ELSE apiCurrentPage) :
        ApiFetchSettles("ok", body)
  \/ \E ok \in BOOLEAN : ApiGetAll(ok)
  \/ \E ok \in BOOLEAN : ApiClose(ok)
  \/ \E ok \in BOOLEAN : ApiSave(ok)
  \/ Tick

SpecApi == InitApi /\ [][NextApi]_vars

(***************************************************************************)
(* Claims.                                                                 *)
(***************************************************************************)
Returned(r) == pc[r] = "done" /\ result[r].kind = "returned"

Succeeded(r) == Returned(r) /\ result[r].success

StatusOf(uid) == RowOf(order_books, uid).status

AllClosedOutside(F) ==
  \A i \in DOMAIN order_books :
    order_books[i].uid \notin F => order_books[i].status = "close"

\* C1: once a run has returned its summary with no persistence error, every
\* persisted order whose uid is outside the run's fresh order set is close,
\* and the close loop changed the status of no order inside that set.  The
\* fresh set is read as the ids the closes were decided on or as the ids of
\* the records the run upserted; the statement has to hold for one of them.
C1_ClosureCorrectness ==
  \A r \in Runs :
    Succeeded(r) /\ runLog[r].saveErrors = 0 =>
      \E F \in {newOrderIds[r], IdsOf(allOrdersToSave[r])} :
        /\ AllClosedOutside(F)
        /\ runLog[r].closedOpen \cap F = {}

\* C2: an order that the run read as close and whose uid is among the fresh
\* records is open once the run has returned, provided its upsert succeeded.
C2_ReopenCorrectness ==
  \A r \in Runs :
    Succeeded(r) =>
      \A i \in DOMAIN existingOrders[r] :
        LET uid == existingOrders[r][i].uid IN
          /\ existingOrders[r][i].status = "close"
          /\ uid \in IdsOf(allOrdersToSave[r])
          /\ uid \in runLog[r].upserted
          => HasUid(order_books, uid) /\ StatusOf(uid) = "open"

\* a run that read A as close, fetched A and upserted it has returned
C2_Witness ==
  \E r \in Runs :
    /\ Succeeded(r)
    /\ \E i \in DOMAIN existingOrders[r] :
         existingOrders[r][i].uid = "A" /\ existingOrders[r][i].status = "close"
    /\ "A" \in runLog[r].upserted
    /\ StatusOf("A") = "open"

\* every page of both sides was obtained before the deadline
FullFetch(r) ==
  ~timedOut[r] /\ \A s \in SideNames : sideStatus[r][s] = "complete"

\* C3: a run changes an order from open to close only if it fetched every
\* page of both sides and the uid is absent from what it fetched; never
\* because a side was rate-limited, failed or was cut off by the deadline.
C3_CloseOnlyAfterFullFetch ==
  \A r \in Runs :
    runLog[r].closedOpen # {} =>
      /\ FullFetch(r)
      /\ runLog[r].closedOpen \cap
           (IdsOf(allOrders[r].buyOrders) \cup IdsOf(allOrders[r].sellOrders)) = {}

\* the gateway call of this step changed the table or differs from the last
DbStep == dbLog' # dbLog \/ order_books' # order_books

\* C4: whatever upserts and status updates hit a uid, its row keeps the
\* created_at of its first insert; an upsert on an existing uid sets side,
\* username, price, quantity, funds and status to the new values and
\* updated_at to the current time, and changes nothing else in the table.
C4_UpsertFrame ==
  [][ /\ \A i \in DOMAIN order_books :
           /\ i \in DOMAIN order_books'
           /\ order_books'[i].uid = order_books[i].uid
           /\ order_books'[i].created_at = order_books[i].created_at
      /\ ( /\ DbStep
           /\ dbLog'.op = "upsert"
           /\ dbLog'.ok
           /\ HasUid(order_books, dbLog'.arg.uid) )
         => order_books' =
              [i \in DOMAIN order_books |->
                 IF order_books[i].uid = dbLog'.arg.uid
                 THEN Row(dbLog'.arg, order_books[i].created_at, now)
                 ELSE order_books[i]]
    ]_vars

\* A, first inserted as a buy order, was upserted later as a sell order
C4_Witness ==
  /\ dbLog.op = "upsert" /\ dbLog.ok /\ dbLog.arg.uid = "A"
  /\ HasUid(order_books, "A")
  /\ RowOf(order_books, "A").side = "sell"
  /\ RowOf(order_books, "A").username = "Unknown"
  /\ RowOf(order_books, "A").created_at = 0
  /\ RowOf(order_books, "A").updated_at = MaxTicks * TickMs

\* C5: the table never holds two rows with the same uid.
C5_UniqueUid ==
  \A i, j \in DOMAIN order_books :
    order_books[i].uid = order_books[j].uid => i = j

\* both uids are stored and the last call upserted one of them once more
C5_Witness ==
  /\ Len(order_books) = Cardinality(Uids)
  /\ dbLog.op = "upsert" /\ dbLog.ok
  /\ RowOf(order_books, dbLog.arg.uid).created_at < now
  /\ RowOf(order_books, dbLog.arg.uid).updated_at = now

\* C6: no step of a run removes a uid from the table.
C6_NoHardDelete == [][UidsIn(order_books) \subseteq UidsIn(order_books')]_vars

\* a run that timed out and closed an order has returned; the row is kept
C6_Witness ==
  \E r \in Runs :
    /\ Returned(r)
    /\ timedOut[r]
    /\ "B" \in runLog[r].closedOpen
    /\ HasUid(order_books, "B") /\ StatusOf("B") = "close"

\* a call for key k issues an upstream request in this step
Issues(k) == reqLog'[k] # reqLog[k] /\ reqLog'[k].outcome = "pending"

\* C7 as stated: two calls for the same side and page within CACHE_TTL of
\* each other never issue two upstream requests, whatever the first one's
\* outcome.
C7_OneRequestPerTtl ==
  [][ \A k \in Keys :
        Issues(k) /\ reqLog[k].issued => now - reqLog[k].at >= CACHE_TTL ]_vars

\* C7 amended: a second request for the key within CACHE_TTL of the first is
\* issued only after the first was answered 429 or failed.
C7_OneRequestPerTtlUnlessFailed ==
  [][ \A k \in Keys :
        Issues(k) /\ reqLog[k].issued =>
          \/ now - reqLog[k].at >= CACHE_TTL
          \/ reqLog[k].outcome \in {"429", "error"} ]_vars

\* the page loop calls for page 1 within CACHE_TTL of the first-page request,
\* which succeeded, and is served from the cache with no request outstanding
C7_Witness ==
  \E c \in Runs :
    /\ cpc[c] = "resume" /\ phase[c] = "loop" /\ currentPage[c] = 1
    /\ reqLog[CurrentKey(c)].outcome = "ok"
    /\ now > reqLog[CurrentKey(c)].at
    /\ now - reqLog[CurrentKey(c)].at < CACHE_TTL
    /\ \A p \in Runs : inflight[p] = NoKey

\* C8: at most one upstream request is outstanding per key; a collector that
\* waits is attached to the outstanding request of its key, and every
\* collector resumes with the value that request settled with.
C8_InFlightDedup ==
  /\ \A p, q \in Runs :
       inflight[p] # NoKey /\ inflight[p] = inflight[q] => p = q
  /\ \A c \in Runs :
       cpc[c] = "await" =>
         awaiting[c] # 0 /\ inflight[awaiting[c]] = CurrentKey(c)
  /\ \A c \in Runs :
       cpc[c] = "resume" =>
         inbox[c] = SettledValue(reqLog[CurrentKey(c)].outcome,
                                 requestCache[CurrentKey(c)].result)
  /\ \A c, d \in Runs :
       cpc[c] = "resume" /\ cpc[d] = "resume" /\ CurrentKey(c) = CurrentKey(d)
         => inbox[c] = inbox[d]

\* two collectors resume from the one request of their key, answered 429
C8_Witness ==
  \E c, d \in Runs :
    /\ c # d
    /\ cpc[c] = "resume" /\ cpc[d] = "resume"
    /\ CurrentKey(c) = CurrentKey(d)
    /\ inbox[c] = Settled(FALSE, RateLimitedResult)
    /\ inbox[d] = inbox[c]

SideList(all, side) == IF side = "buy" THEN all.buyOrders ELSE all.sellOrders

C10_NeverThrows ==
  \A r \in Runs :
    /\ result[r].kind # "threw"
    /\ pc[r] = "done" =>
         /\ result[r].kind = "returned"
         /\ result[r].source = input[r].source
         /\ IF runLog[r].failed # ""
            THEN ~result[r].success /\ result[r].details = runLog[r].failed
            ELSE result[r].success

\* the close loop hit a failing status update and the run returned a failure
C10_Witness ==
  \E r \in Runs :
    /\ Returned(r)
    /\ ~result[r].success
    /\ result[r].details = "updateOrderStatus failed"


OtherSide(s) == IF s = "buy" THEN "sell" ELSE "buy"

\* side s of run r failed, was rate-limited or came back empty
SideFailedOrEmpty(r, s) ==
  \/ sideStatus[r][s] \in {"failed", "rateLimited"}
  \/ sideStatus[r][s] = "complete" /\ SideList(allOrders[r], s) = <<>>

\* C11: once the buy side has failed or was rate-limited, the sell side has
\* been requested; a run in which no persistence call outside the save loop
\* failed returns success = true; and when one side failed or was empty while
\* the other was collected in full before the deadline, the orders of the
\* other side are among the ids the closes were decided on and, their
\* upserts succeeding, are stored as open when the run has returned.
C11_SideIndependence ==
  \A r \in Runs :
    /\ sideStatus[r]["buy"] \in {"failed", "rateLimited"} =>
         sideIx[r] = 2 /\ reqLog[requestKey("sell", 1)].issued
    /\ Returned(r) /\ runLog[r].failed = "" => result[r].success
    /\ \A s \in SideNames :
         ( /\ Succeeded(r)
           /\ ~timedOut[r]
           /\ SideFailedOrEmpty(r, s)
           /\ sideStatus[r][OtherSide(s)] = "complete"
           /\ runLog[r].saveErrors = 0 )
         => /\ IdsOf(SideList(allOrders[r], OtherSide(s))) \subseteq
                 newOrderIds[r] \cap runLog[r].upserted
            /\ \A uid \in IdsOf(SideList(allOrders[r], OtherSide(s))) :
                 HasUid(order_books, uid) /\ StatusOf(uid) = "open"

\* the buy side failed with an error, the sell side was collected and its
\* order B stored; the run returned success
C11_Witness ==
  \E r \in Runs :
    /\ Succeeded(r)
    /\ ~timedOut[r]
    /\ sideStatus[r]["buy"] = "failed"
    /\ sideStatus[r]["sell"] = "complete"
    /\ "B" \in runLog[r].upserted
    /\ StatusOf("B") = "open"

\* the ids reconciliation finds in allOrders of run r
FreshIds(r) == IdsOf(allOrders[r].buyOrders) \cup IdsOf(allOrders[r].sellOrders)

\* C12: when the deadline fires, every order collected up to that moment, the
\* pages already fetched of the side in progress included, is in allOrders,
\* the object reconciliation goes on with.
C12_DeadlineKeepsCollected ==
  [][ \A r \in Runs :
        ~timedOut[r] /\ timedOut'[r] =>
          IdsOf(ordersWithStatus[r]) \subseteq FreshIds(r) ]_vars

\* the records run r reconciles, in the order they are saved
FreshList(r) == allOrders[r].buyOrders \o allOrders[r].sellOrders

Occurrences(list, uid) == Cardinality({i \in DOMAIN list : list[i].id = uid})

LastOf(list, uid) ==
  list[CHOOSE i \in DOMAIN list :
         list[i].id = uid /\ \A j \in DOMAIN list : list[j].id = uid => j <= i]

\* a row without its updated_at
Content(row) == [row EXCEPT !.updated_at = 0]

\* run r has collected the fresh set of the run before it, which returned its
\* summary with every upsert succeeding
SameFreshAsBefore(r) ==
  /\ r > 1
  /\ Succeeded(r - 1)
  /\ runLog[r - 1].saveErrors = 0
  /\ cpc[r] = "finished"
  /\ allOrders[r] = allOrders[r - 1]

\* run r closes or upserts in this step
Writes(r) == runLog'[r] # runLog[r]

\* C13 as stated: every close and upsert of the second run leaves the row it
\* hits as it was, updated_at aside.
C13_Idempotent ==
  [][ \A r \in Runs :
        SameFreshAsBefore(r) /\ Writes(r) =>
          /\ Len(order_books') = Len(order_books)
          /\ \A i \in DOMAIN order_books :
               Content(order_books'[i]) = Content(order_books[i]) ]_vars

\* C13 amended: no close or upsert of the second run changes a status or the
\* set of rows; an upsert changes the other fields of its row only when the
\* uid occurs more than once in the fresh list; and when a run returns, the
\* row of every fresh uid holds the values of the last fresh record with that
\* uid, so that the second run leaves the values the first one left.
C13_IdempotentUpToRepeatedIds ==
  [][ \A r \in Runs :
        /\ SameFreshAsBefore(r) /\ Writes(r) =>
             /\ Len(order_books') = Len(order_books)
             /\ \A i \in DOMAIN order_books :
                  /\ order_books'[i].uid = order_books[i].uid
                  /\ order_books'[i].status = order_books[i].status
                  /\ Content(order_books'[i]) # Content(order_books[i]) =>
                       Occurrences(FreshList(r), order_books[i].uid) > 1
        /\ pc[r] # "done" /\ pc'[r] = "done" /\ result'[r].success =>
             \A uid \in IdsOf(FreshList(r)) :
               /\ HasUid(order_books', uid)
               /\ Content(RowOf(order_books', uid)) =
                    Content(Row(OrderArg(LastOf(FreshList(r), uid)),
                                RowOf(order_books', uid).created_at, 0)) ]_vars

\* the second run collected what the first did, closed B once more and
\* upserted the fresh records again, at a later time
C13_Witness ==
  \E r \in Runs :
    /\ SameFreshAsBefore(r)
    /\ Succeeded(r)
    /\ "B" \in runLog[r].closed /\ "B" \in runLog[r - 1].closed
    /\ runLog[r].upserted # {}
    /\ \E i \in DOMAIN order_books :
         order_books[i].updated_at > order_books[i].created_at

\* the text is a number: an optional sign and digits, nothing else
IsNumberText(s) ==
  LET body == IF s # <<>> /\ Head(s) = "-" THEN Tail(s) ELSE s
  IN  body # <<>> /\ DigitPrefixLen(body) = Len(body)

\* run r gets the answer to an insertOrderBook call in this step
Saves(r) == pc[r] = "save" /\ savedCount'[r] + runLog'[r].saveErrors
                                # savedCount[r] + runLog[r].saveErrors

\* C14: a record whose price, size or funds is missing or is not a number is
\* passed to the upsert with 0 in that field and, the database answering, is
\* stored with it and counted as saved; the run goes on.
C14_NumericDefaulting ==
  [][ \A r \in Runs :
        Saves(r) =>
          LET o == allOrdersToSave[r][saveIx[r]]
              arg == dbLog'.arg
          IN  /\ ~IsNumberText(o.price) => arg.price = 0
              /\ ~IsNumberText(o.size) => arg.quantity = 0
              /\ ~IsNumberText(o.funds) => arg.funds = 0
              /\ dbLog'.ok =>
                   /\ savedCount'[r] = savedCount[r] + 1
                   /\ Content(RowOf(order_books', arg.uid)) =
                        Content(Row(arg, RowOf(order_books', arg.uid).created_at, 0))
              /\ pc'[r] \in {"save", "done"}
              /\ pc'[r] = "done" => result'[r].success ]_vars

\* C15: when an upsert of the save loop fails, nothing is stored and nothing
\* counted for that record, the loop goes on to the next record or, after the
\* last one, the run returns success = true; the savedToDatabase it reports
\* is the number of upserts that succeeded, every record of the list having
\* been attempted.
C15_PerRecordIsolation ==
  [][ \A r \in Runs :
        Saves(r) =>
          /\ dbLog'.op = "upsert"
          /\ IF dbLog'.ok
             THEN savedCount'[r] = savedCount[r] + 1
             ELSE /\ savedCount'[r] = savedCount[r]
                  /\ runLog'[r].saveErrors = runLog[r].saveErrors + 1
                  /\ order_books' = order_books
          /\ IF saveIx[r] < Len(allOrdersToSave[r])
             THEN pc'[r] = "save" /\ saveIx'[r] = saveIx[r] + 1
             ELSE /\ pc'[r] = "done"
                  /\ result'[r].kind = "returned"
                  /\ result'[r].success
                  /\ savedCount'[r] + runLog'[r].saveErrors = Len(allOrdersToSave[r])
                  /\ result'[r].savedToDatabase =
                       Len(allOrdersToSave[r]) - runLog'[r].saveErrors ]_vars

\* of two fresh records the upsert of one failed and that of the other
\* succeeded; the run returned success with savedToDatabase = 1
C15_Witness ==
  \E r \in Runs :
    /\ Succeeded(r)
    /\ Len(allOrdersToSave[r]) = 2
    /\ runLog[r].saveErrors = 1
    /\ result[r].savedToDatabase = 1
    /\ result[r].totalEntries = 2

\* run r returns in this step
Returns(r) == pc[r] # "done" /\ pc'[r] = "done"

\* C16: a success summary reports the lengths of the two sides as they are
\* when it is built, and its rateLimited is true exactly when both are 0.
C16_RateLimitedFlag ==
  [][ \A r \in Runs :
        Returns(r) /\ result'[r].success =>
          /\ result'[r].totalBuyOrders = Len(allOrders[r].buyOrders)
          /\ result'[r].totalSellOrders = Len(allOrders[r].sellOrders)
          /\ result'[r].rateLimited =
               (result'[r].totalBuyOrders = 0 /\ result'[r].totalSellOrders = 0)
    ]_vars

\* both sides failed with an error, none was rate-limited: the summary has
\* no orders and rateLimited = true
C16_Witness ==
  \E r \in Runs :
    /\ Succeeded(r)
    /\ sideStatus[r]["buy"] = "failed" /\ sideStatus[r]["sell"] = "failed"
    /\ result[r].totalBuyOrders = 0 /\ result[r].totalSellOrders = 0
    /\ result[r].rateLimited

\* the persisted orders run r read whose uid is outside the set F
AbsentFrom(r, F) ==
  Cardinality({i \in DOMAIN existingOrders[r] : existingOrders[r][i].uid \notin F})

\* C17: in a success summary totalEntries = totalBuyOrders + totalSellOrders
\* and savedToDatabase <= totalEntries; when no persistence call failed,
\* savedToDatabase is the number of fresh records the summary reports and
\* closedOrders the number of persisted orders whose uid is not among them.
C17_SummaryCounts ==
  \A r \in Runs :
    Succeeded(r) =>
      /\ result[r].totalEntries =
           result[r].totalBuyOrders + result[r].totalSellOrders
      /\ result[r].savedToDatabase <= result[r].totalEntries
      /\ runLog[r].saveErrors = 0 =>
           /\ result[r].savedToDatabase = result[r].totalEntries
           /\ result[r].closedOrders = AbsentFrom(r, IdsOf(allOrdersToSave[r]))

\* both first-page requests of run r were answered 429
BothRateLimited(r) == \A s \in SideNames : sideStatus[r][s] = "rateLimited"

\* the persisted orders run r read with the given status
ReadWithStatus(r, status) ==
  {i \in DOMAIN existingOrders[r] : existingOrders[r][i].status = status}

\* C18 as stated: with both sides rate-limited the summary has rateLimited =
\* true and savedToDatabase = 0, every order read as open is close, and
\* closedOrders is the number of orders that were open.
C18_BothRateLimited ==
  \A r \in Runs :
    Succeeded(r) /\ BothRateLimited(r) =>
      /\ result[r].rateLimited
      /\ result[r].savedToDatabase = 0
      /\ \A i \in ReadWithStatus(r, "open") :
           StatusOf(existingOrders[r][i].uid) = "close"
      /\ result[r].closedOrders = Cardinality(ReadWithStatus(r, "open"))

\* C18 amended: as above, but closedOrders is the number of all persisted
\* orders, those already close included; the close loop changed the status of
\* the open ones only, and every persisted order is close after the run.
C18_BothRateLimitedClosesAll ==
  \A r \in Runs :
    Succeeded(r) /\ BothRateLimited(r) =>
      /\ result[r].rateLimited
      /\ result[r].savedToDatabase = 0
      /\ \A i \in DOMAIN existingOrders[r] :
           /\ HasUid(order_books, existingOrders[r][i].uid)
           /\ StatusOf(existingOrders[r][i].uid) = "close"
      /\ runLog[r].closedOpen =
           {existingOrders[r][i].uid : i \in ReadWithStatus(r, "open")}
      /\ result[r].closedOrders = Len(existingOrders[r])

\* both sides were rate-limited on a store with A close and B open: B is
\* close and the summary reports two closed orders
C18_Witness ==
  \E r \in Runs :
    /\ Succeeded(r) /\ BothRateLimited(r)
    /\ Cardinality(ReadWithStatus(r, "open")) = 1
    /\ Cardinality(ReadWithStatus(r, "close")) = 1
    /\ StatusOf("B") = "close"
    /\ result[r].closedOrders = 2

\* every run has returned its summary after collecting the same fresh set
AllRunsSameFresh ==
  \A r \in Runs : Succeeded(r) /\ allOrders[r] = allOrders[1]

\* the statuses one run with the fresh set of run 1 leaves
SingleRunStatuses ==
  /\ \A uid \in IdsOf(FreshList(1)) : HasUid(order_books, uid)
  /\ \A i \in DOMAIN order_books :
       order_books[i].status =
         IF order_books[i].uid \in IdsOf(FreshList(1)) THEN "open" ELSE "close"

\* C19: with the runs interleaved at every persistence call, each write that
\* succeeds leaves one row per uid, the row it hits holding the status (and,
\* for an upsert, the fields) of that write and every other row as it was, so
\* that each row always holds what the last write to its uid stored; and once
\* all runs have returned after collecting the same fresh set, the statuses
\* are those one run leaves.
C19_LastWriterWins ==
  [][ /\ ( DbStep /\ dbLog'.ok /\ dbLog'.op \in {"upsert", "setStatus"} ) =>
           LET uid == dbLog'.arg.uid IN
             /\ \A i, j \in DOMAIN order_books' :
                  order_books'[i].uid = order_books'[j].uid => i = j
             /\ dbLog'.op = "upsert" =>
                  /\ HasUid(order_books', uid)
                  /\ Content(RowOf(order_books', uid)) =
                       Content(Row(dbLog'.arg, RowOf(order_books', uid).created_at, 0))
             /\ dbLog'.op = "setStatus" /\ HasUid(order_books, uid) =>
                  Content(RowOf(order_books', uid)) =
                    Content([RowOf(order_books, uid) EXCEPT !.status = dbLog'.arg.status])
             /\ \A i \in DOMAIN order_books :
                  order_books[i].uid # uid => order_books'[i] = order_books[i]
      /\ AllRunsSameFresh' => SingleRunStatuses'
    ]_vars

\* two runs collected the same fresh set; each read A as close and B as open
\* before the other wrote, each closed B and upserted A
C19_Witness ==
  \E r, q \in Runs :
    /\ r # q
    /\ AllRunsSameFresh
    /\ \A c \in {r, q} :
         /\ \E i \in DOMAIN existingOrders[c] :
              existingOrders[c][i].uid = "A" /\ existingOrders[c][i].status = "close"
         /\ "B" \in runLog[c].closed
         /\ "A" \in runLog[c].upserted
    /\ StatusOf("A") = "open" /\ StatusOf("B") = "close"

\* the attempt that just settled failed: the call log grew by a status other
\* than "ok" (a successful first-page call is followed by the next call in
\* the same step, which starts a new log)
AttemptFailed ==
  /\ rvPc = "fetch"
  /\ \E status \in {"429", "error"} :
       rvCallLog'.responses = Append(rvCallLog.responses, status)

\* C20: one fetchPage call of the retry variant sends at most three
\* requests; after failed attempt k < 3, by HTTP 429 or by an error, it waits
\* 2000 * 2^(k-1) ms before the next one; after the third failure it throws
\* without waiting, the side's catch takes the error, the side has failed and
\* the run goes on to the next side or to the store
C20_RetryBackoff ==
  [][ /\ attempt' <= retries
      /\ Len(rvCallLog'.responses) <= retries
      /\ rvCallLog'.outcome = "threw" => Len(rvCallLog'.responses) = retries
      /\ AttemptFailed =>
           LET k == Len(rvCallLog'.responses) IN
           IF k < retries
           THEN /\ rvPc' = "backoff"
                /\ rvCallLog'.waits = Append(rvCallLog.waits, DefaultDelay * 2^(k - 1))
                /\ rvCallLog'.outcome = "pending"
                /\ rvSideStatus' = rvSideStatus
           ELSE /\ rvCallLog'.outcome = "threw"
                /\ rvCallLog'.waits = rvCallLog.waits
                /\ Len(rvCallLog'.waits) = retries - 1
                /\ rvSideStatus'[Sides[rvSideIx]] = "failed"
                /\ rvPc' \in {"sidePause", "read"}
                /\ rvAllOrders' = rvAllOrders
      /\ rvPc = "backoff" =>
           /\ rvPc' = "fetch"
           /\ attempt' = attempt + 1
           /\ attempt' = Len(rvCallLog.responses) + 1 ]_vars

\* the sell side's call threw after a 429, an error and a 429, having waited
\* 2000 and 4000 ms; the buy side's orders are there and the run reads the store
C20_Witness ==
  /\ rvPc = "read"
  /\ rvCallLog = [responses |-> <<"429", "error", "429">>,
                  waits |-> <<2000, 4000>>, outcome |-> "threw"]
  /\ rvSideStatus = [buy |-> "complete", sell |-> "failed"]
  /\ rvAllOrders.buyOrders # <<>>

\* C21: every execution of the cron trigger emits exactly one
\* xpl.fetch.requested event, and every such event starts exactly one run of
\* the ProcessXplData handler
C21_OneEventPerExecution ==
  /\ cronPc = "idle" => cronLog.emitted = cronLog.execs
  /\ cronLog.emitted = cronLog.delivered + Len(topic)
  /\ cronLog.delivered = Cardinality({r \in Runs : pc[r] # "off"})

\* the part of C21 that holds: no event is lost or delivered twice
C21_EveryEventStartsOneRun ==
  /\ cronLog.emitted = cronLog.delivered + Len(topic)
  /\ cronLog.delivered = Cardinality({r \in Runs : pc[r] # "off"})
  /\ cronLog.emitted + cronLog.thrown <= cronLog.execs
  /\ cronHandler = "emit" /\ cronPc = "idle" =>
       cronLog.emitted + cronLog.thrown = cronLog.execs

\* C22: in the retrying page fetcher an HTTP 429 answer is not retried and
\* never leads to a thrown error: the call returns (the empty-page,
\* zero-total-pages result) on the attempt that was answered 429
C22_RateLimitNotRetried ==
  [][ rvPc = "fetch" /\ rvCallLog'.responses = Append(rvCallLog.responses, "429")
        => /\ rvPc' # "backoff"
           /\ rvCallLog'.outcome = "returned"
           /\ rvCallLog'.waits = <<>> ]_vars

\* an upstream request for the key has been sent and not yet answered
Outstanding(key) == \E p \in Runs : inflight[p] = key

\* collector r calls fetchPage in this step: out of createOrderBooksTable's
\* return, or out of a Resume that moves it to another side, phase or page
CallsFetchPage(r) ==
  /\ cpc'[r] \in {"await", "resume"}
  /\ \/ pc[r] = "schema" /\ pc'[r] = "race"
     \/ /\ cpc[r] = "resume"
        /\ <<sideIx[r], phase[r], currentPage[r]>> #
             <<sideIx'[r], phase'[r], currentPage'[r]>>

NoMarkerWithoutRequest ==
  \A key \in Keys : pendingRequests[key] # 0 => Outstanding(key)

\* C23: when an upstream request completes, with any outcome, its in-flight
\* marker is removed, so a key without an outstanding request has no marker,
\* and a later call for the key that misses the cache sends a new request
C23_MarkerRemovedOnCompletion ==
  [][ /\ NoMarkerWithoutRequest
      /\ NoMarkerWithoutRequest'
      /\ \A p \in Runs :
           inflight[p] # NoKey /\ inflight'[p] = NoKey =>
             pendingRequests'[inflight[p]] = 0
      /\ \A r \in Runs :
           LET key == requestKey(Sides[sideIx'[r]],
                                 IF phase'[r] = "first" THEN 1 ELSE currentPage'[r])
           IN  CallsFetchPage(r) /\ ~CacheHit(requestCache[key], now)
                 /\ ~Outstanding(key) =>
                 /\ inflight'[r] = key
                 /\ pendingRequests'[key] = r
                 /\ reqLog'[key] = [issued |-> TRUE, at |-> now, outcome |-> "pending"] ]_vars

\* the second collector has sent a request for the first buy page after the
\* first collector's buy side failed on it; the key's earlier request left
\* no marker behind
C23_Witness ==
  /\ sideStatus[1]["buy"] = "failed"
  /\ sideIx[1] = 2
  /\ ~requestCache[requestKey("buy", 1)].present
  /\ inflight[2] = requestKey("buy", 1)
  /\ pendingRequests[requestKey("buy", 1)] = 2
  /\ cpc[2] = "await"

\* C24: the cache holds an entry for a key only if a request for the key was
\* answered 2xx with a body (the 429 result and failures are never cached),
\* and a call is served from the cache, without a request, only when the
\* entry's age is strictly below CACHE_TTL: an entry of age >= CACHE_TTL is
\* never returned
C24_CacheOnlySuccessWithinTtl ==
  [][ /\ \A key \in Keys :
           /\ requestCache'[key].present =>
                requestCache'[key].result \in Envelopes(key.side, key.page)
           /\ requestCache'[key] # requestCache[key] =>
                /\ Outstanding(key)
                /\ reqLog'[key].outcome = "ok"
                /\ requestCache'[key].timestamp = now
      /\ \A r \in Runs :
           LET key == requestKey(Sides[sideIx'[r]],
                                 IF phase'[r] = "first" THEN 1 ELSE currentPage'[r])
               entry == requestCache[key]
           IN  CallsFetchPage(r) =>
                 /\ cpc'[r] = "resume" =>
                      /\ entry.present
                      /\ now - entry.timestamp < CACHE_TTL
                      /\ inbox'[r] = Settled(FALSE, entry.result)
                      /\ UNCHANGED <<reqLog, inflight, pendingRequests, requestCache>>
                 /\ entry.present /\ now - entry.timestamp >= CACHE_TTL =>
                      cpc'[r] = "await" ]_vars

\* the entry of the first buy page is exactly CACHE_TTL old and a call for
\* the key has just sent a new request
C24_Witness ==
  LET key == requestKey("buy", 1) IN
  /\ requestCache[key].present
  /\ requestCache[key].timestamp = 0
  /\ now = CACHE_TTL
  /\ reqLog[key] = [issued |-> TRUE, at |-> CACHE_TTL, outcome |-> "pending"]

\* C25: when the fetch of page k > 1 of a side fails, the side contributes
\* the orders of pages 1..k-1, collected before the failure, to
\* reconciliation, and the error does not reach the orchestrator
C25_PagesBeforeFailureKept ==
  [][ \A r \in Runs :
        /\ cpc[r] = "resume" /\ inbox[r].threw
        /\ phase[r] = "loop" /\ currentPage[r] > 1
        /\ (sideIx'[r] # sideIx[r] \/ cpc'[r] = "finished")
        => /\ SideList(allOrders'[r], Sides[sideIx[r]]) = ordersWithStatus[r]
           /\ result'[r] = result[r]
           /\ runLog'[r].failed = "" ]_vars

\* C26: when the first-page response of a side has no totalPage field and is
\* not the rate-limit result, the side fails, contributes zero orders, and
\* the run goes on to the other side and to reconciliation
C26_MalformedFirstPage ==
  [][ \A r \in Runs :
        LET side == Sides[sideIx[r]] IN
        /\ cpc[r] = "resume" /\ ~inbox[r].threw /\ phase[r] = "first"
        /\ inbox[r].result.totalPage = NoTotalPage
        /\ <<sideIx[r], phase[r], currentPage[r], cpc[r]>> #
             <<sideIx'[r], phase'[r], currentPage'[r], cpc'[r]>>
        => /\ sideStatus'[r][side] = "failed"
           /\ SideList(allOrders'[r], side) = <<>>
           /\ allOrders'[r] = allOrders[r]
           /\ result'[r] = result[r]
           /\ runLog'[r] = runLog[r]
           /\ IF sideIx[r] < Len(Sides)
              THEN /\ sideIx'[r] = sideIx[r] + 1
                   /\ phase'[r] = "first"
                   /\ cpc'[r] \in {"await", "resume"}
              ELSE /\ cpc'[r] = "finished"
                   /\ pc[r] = "race" => pc'[r] = "read" ]_vars

\* the buy side's first page came without totalPage; the sell side was
\* collected and saved, and the run returned its summary
C26_Witness ==
  /\ Returned(1) /\ result[1].success
  /\ requestCache[requestKey("buy", 1)].present
  /\ requestCache[requestKey("buy", 1)].result.totalPage = NoTotalPage
  /\ sideStatus[1] = [buy |-> "failed", sell |-> "complete"]
  /\ result[1].totalBuyOrders = 0
  /\ runLog[1].upserted = {"B"}

\* C27: after the collection deadline of a run has fired, the run starts no
\* new upstream page fetch (requests already in flight may complete and fill
\* the cache)
C27_NoFetchAfterDeadline ==
  [][ \A r \in Runs :
        timedOut[r] /\ inflight'[r] # NoKey => inflight'[r] = inflight[r] ]_vars

\* C28: the fresh order set of a run is fixed when the race between
\* collection and deadline settles: the ids that decide the closes, the
\* records upserted and the counts of the summary come from that one set, and
\* no externalId is both closed and upserted by one run
C28_FreshSetFixedAtRace ==
  \A r \in Runs :
    /\ pc[r] = "save" \/ (Returned(r) /\ result[r].success) =>
         /\ newOrderIds[r] = IdsOf(allOrdersToSave[r])
         /\ runLog[r].closed \cap runLog[r].upserted = {}
    /\ Returned(r) /\ result[r].success =>
         result[r].totalEntries = Len(allOrdersToSave[r])

\* run r has not got past createOrderBooksTable, or was ended by its failure
BeforeSchema(r) ==
  \/ pc[r] \in {"off", "idle", "schema"}
  \/ pc[r] = "done" /\ runLog[r].failed = "createOrderBooksTable failed"

\* C29: in every run createOrderBooksTable completes successfully before any
\* page fetch and before any read or write of the store; a run in which it
\* fails calls none of getAllOrderBooks, updateOrderStatus, insertOrderBook;
\* on an existing table it leaves every persisted row unchanged
C29_SchemaFirst ==
  [][ /\ \A r \in Runs :
           /\ BeforeSchema(r)' =>
                /\ cpc'[r] = "idle" /\ inflight'[r] = NoKey
                /\ existingOrders'[r] = <<>>
                /\ runLog'[r].closed = {} /\ runLog'[r].upserted = {}
                /\ runLog'[r].saveErrors = 0
           /\ pc'[r] \in {"race", "read", "close", "save"} => tableExists'
           /\ pc[r] = "schema" /\ pc'[r] = "race" =>
                dbLog' = DbCall("create", NoArg, TRUE)
           /\ pc[r] = "schema" /\ pc'[r] # "schema" /\ tableExists =>
                order_books' = order_books
      /\ (\A r \in Runs : BeforeSchema(r)') =>
           /\ dbLog'.op \in {"none", "create"}
           /\ \A key \in Keys : reqLog'[key] = NoReq ]_vars

\* createOrderBooksTable succeeded on a table that holds rows, and the first
\* page request of the run is out
C29_Witness ==
  /\ pc[1] = "race"
  /\ dbLog = DbCall("create", NoArg, TRUE)
  /\ Len(order_books) = 2
  /\ inflight[1] = requestKey("buy", 1)

\* run r completes a call of the gateway in this step
StoreStep(r) ==
  /\ pc[r] \in {"read", "close", "save"}
  /\ <<pc[r], closeIx[r], saveIx[r]>> # <<pc'[r], closeIx'[r], saveIx'[r]>>

\* C30: each run reads the persisted set exactly once, after its collection
\* phase (the race between collector and deadline) has ended and before its
\* first write, and applies all of its closes before its first upsert
C30_ReadOnceClosesBeforeUpserts ==
  [][ \A r \in Runs :
        /\ pc'[r] = "read" /\ pc[r] # "read" =>
             /\ pc[r] = "race"
             /\ timedOut'[r] \/ cpc'[r] = "finished"
        /\ pc[r] \in {"close", "save", "done"} => pc'[r] \notin {"schema", "race", "read"}
        /\ pc[r] \in {"save", "done"} => pc'[r] # "close"
        /\ StoreStep(r) =>
             /\ dbLog'.op = IF pc[r] = "read" THEN "list"
                            ELSE IF pc[r] = "close" THEN "setStatus" ELSE "upsert"
             /\ pc[r] = "read" =>
                  /\ runLog[r].closed = {} /\ runLog[r].upserted = {}
                  /\ runLog[r].saveErrors = 0
                  /\ pc'[r] # "read"
             /\ pc[r] = "close" =>
                  /\ runLog[r].upserted = {} /\ runLog[r].saveErrors = 0
             /\ pc[r] = "close" /\ pc'[r] = "save" =>
                  \A i \in DOMAIN existingOrders[r] :
                    existingOrders[r][i].uid \notin newOrderIds[r] =>
                      existingOrders[r][i].uid \in runLog'[r].closed
        /\ ~StoreStep(r) /\ pc[r] # "schema" /\ (\A q \in Runs \ {r} : pc[q] = "off") =>
             dbLog' = dbLog ]_vars

\* the run read the store once, closed B, then upserted A, and returned
C30_Witness ==
  /\ Returned(1) /\ result[1].success /\ ~timedOut[1]
  /\ Len(existingOrders[1]) = 2
  /\ runLog[1].closed = {"B"}
  /\ runLog[1].upserted = {"A"}
  /\ dbLog.op = "upsert"

\* what the answered request of the page carried: the records of a 2xx body,
\* nothing for the 429 result
PageContent(side, page) ==
  LET key == requestKey(side, page) IN
  IF reqLog[key].outcome = "ok" THEN OrdersOf(requestCache[key].result) ELSE <<>>

RECURSIVE PagesConcat(_, _)
PagesConcat(side, n) ==
  IF n = 0 THEN <<>> ELSE PagesConcat(side, n - 1) \o PageContent(side, n)

C32_RecloseIsNoOp ==
  [][ \A uid \in Uids :
        /\ dbLog' = DbCall("setStatus", StatusArg(uid, "close"), TRUE)
        /\ HasUid(order_books, uid)
        /\ RowOf(order_books, uid).status = "close"
        => order_books' = order_books ]_vars

\* C33 as stated: a run never waits for a request that another run issued.
C33_NoWaitOnOtherRun ==
  \A r \in Runs : cpc[r] = "await" => awaiting[r] = r

\* C33: a run that calls the page fetcher for a key whose request another run
\* has outstanding sends no request of its own and waits for that request;
\* when the request completes every run waiting for it resumes in that step;
\* a call for a key with no outstanding request and no fresh cache entry
\* sends its own request whatever the other runs are waiting for.
C33_JoinsOutstandingRequest ==
  [][ \A r, p \in Runs :
        /\ ( /\ p # r
             /\ CallsFetchPage(r)
             /\ inflight[p] = CurrentKey(r)' )
           => /\ cpc'[r] = "await"
              /\ awaiting'[r] = p
              /\ inflight' = inflight
              /\ reqLog' = reqLog
        /\ ( inflight[p] # NoKey /\ inflight'[p] = NoKey /\ awaiting[r] = p )
           => /\ cpc'[r] = "resume"
              /\ awaiting'[r] = 0
        /\ ( /\ CallsFetchPage(r)
             /\ ~Outstanding(CurrentKey(r)')
             /\ ~CacheHit(requestCache[CurrentKey(r)'], now) )
           => /\ inflight'[r] = CurrentKey(r)'
              /\ awaiting'[r] = r ]_vars

\* run 2 waits for the buy page 1 request that run 1 issued
C33_Witness ==
  /\ cpc[2] = "await"
  /\ awaiting[2] = 1
  /\ inflight[1] = CurrentKey(2)

\* the persistence call a run awaits at each position outside the save loop
AwaitedCall(at) ==
  IF at = "schema" THEN "create" ELSE IF at = "read" THEN "list" ELSE "setStatus"

\* run r's awaited schema, list or status-update call rejects in this step
RejectedCall(r) ==
  /\ pc[r] \in {"schema", "read", "close"}
  /\ now' = now
  /\ UNCHANGED <<inflight, cpc>>
  /\ dbLog'.op = AwaitedCall(pc[r])
  /\ ~dbLog'.ok

\* C34: when the schema call, the list call or a status update of the close
\* loop fails, the run ends in that step with a failed summary carrying the
\* error detail and the store untouched; from then on the run makes no
\* persistence call, changes no row and stays returned with that summary.
C34_PersistenceFailureAborts ==
  [][ \A r \in Runs :
        /\ RejectedCall(r)
             => /\ pc'[r] = "done"
                /\ result'[r].kind = "returned"
                /\ ~result'[r].success
                /\ result'[r].details # ""
                /\ order_books' = order_books
                /\ tableExists' = tableExists
        /\ (Returned(r) /\ ~result[r].success)
             => /\ pc'[r] = "done"
                /\ result'[r] = result[r]
                /\ dbLog' = dbLog
                /\ order_books' = order_books ]_vars

\* the second status update of a close loop failed: the run returned a
\* failed summary with one order closed, and the collector was still waiting
C34_Witness ==
  /\ Returned(1)
  /\ ~result[1].success
  /\ result[1].details = "updateOrderStatus failed"
  /\ runLog[1].closed # {}
  /\ dbLog.op = "setStatus" /\ ~dbLog.ok

\* C35 as stated: no execution of the cron trigger ends with an exception.
C35_HandlerAlwaysCompletes == cronLog.thrown = 0

\* C35: the triggers of fetch-xpl-cron.step.ts and part_004 log every failure
\* and complete normally; the trigger of part_002 logs a failed emit and
\* throws it again to the framework, once per failed execution.
C35_OnlyEmitVariantRethrows ==
  /\ cronHandler \in {"logOnly", "http"} => cronLog.thrown = 0
  /\ cronHandler = "emit" =>
       /\ cronLog.thrown = cronLog.errors
       /\ cronLog.thrown = cronLog.execs - cronLog.emitted
  /\ cronLog.errors <= cronLog.execs

\* the emit of part_002 was rejected once and the handler threw
C35_Witness ==
  /\ cronHandler = "emit"
  /\ cronPc = "idle"
  /\ cronLog.thrown = 1
  /\ cronLog.execs = 1


\* every page 1..n of the side was answered 2xx
AllPagesOk(side, n) ==
  \A i \in 1..n : reqLog[requestKey(side, i)].outcome = "ok"

C37_EveryRunReturns ==
  \A r \in Runs : (pc[r] = "schema") ~> Returned(r)

\* the run returned a success summary while its page request was still
\* unanswered: the deadline ended the race
C37_Witness ==
  /\ Succeeded(1)
  /\ timedOut[1]
  /\ inflight[1] # NoKey
  /\ cpc[1] = "await"

\* C38: in the direct GET /fetch-xpl handler, once a page fetch of either
\* side has failed the handler has returned status 500 with success false,
\* and the invocation has inserted, updated or closed no order row: the rows
\* are those found when the request arrived.
C38_FetchFailureWritesNothing ==
  apiLog.fetchFailed =>
    /\ apiPc = "done"
    /\ apiResponse.status = 500
    /\ ~apiResponse.success
    /\ apiLog.writes = {}
    /\ order_books = apiLog.before

\* the sell side's request failed after the buy side was fetched, on a store
\* that held rows: the handler answered 500
C38_Witness ==
  /\ apiLog.fetchFailed
  /\ apiSideIx = Len(Sides)
  /\ apiAllOrders.buyOrders # <<>>
  /\ apiLog.before # <<>>
  /\ apiResponse.status = 500
====
